---- MODULE Spec2Model ----
(***************************************************************************)
(* Paraviewer: the Read Partitioner (utils.split_bam and its caller        *)
(* paraviewer.process_individual_sample) and the Record Aggregator         *)
(* (process_paraphase.make_table_entries), as state machines.              *)
(*                                                                         *)
(*   Spec       one call of process_individual_sample up to the test of    *)
(*              split_bam's result: the streaming pass, its finally block  *)
(*              and what the caller observes.                              *)
(*   SpecTable  one call of make_table_entries, one loop iteration per     *)
(*              step.                                                      *)
(*   SpecInfo   one call of get_special_info or puretarget_annotate.       *)
(*   SpecRows   one call of make_trio_table_entries with copy_trio_bams.   *)
(*   SpecRun    one run of paraviewer(args): the individuals, the trios    *)
(*              and the report table.                                      *)
(*   SpecMain   main(): the region lists of the command line, then the     *)
(*              streaming pass with the validated lists.                   *)
(*   SpecImages one call of generate_igv_images, one batch per step.       *)
(*   SpecPedigree  one call of read_pedigree_file, one line per step.      *)
(***************************************************************************)
EXTENDS Integers, Sequences, FiniteSets, TLC

\* ------------------------------------------------------------------------
\* Bounds of the enumeration (not program constants)

\* longest source stream of the tagged kind
MaxReads == 4

\* longest source stream of the many-regions kind
MaxLongReads == 7

\* most keys of a call-metadata document
MaxJsonKeys == 2

\* most special-info keys of the record of a region
MaxSpecialKeys == 2

\* most batch scripts of a subject
MaxBatches == 3

\* most lines of a pedigree file
MaxPedLines == 3

\* ------------------------------------------------------------------------
\* Program constants

\* LRUCache(maxsize=5)
CacheMaxSize == 5

\* --max-reads-per-haplotype, default=500
DefaultMaxReadsPerHap == 500

\* a tag that the read does not carry (read.has_tag(...) is False)
NoTag == "<none>"

\* hp = "unknown": the group of the reads without an HP tag
UnknownHap == "unknown"

\* ------------------------------------------------------------------------
\* Inputs

\* The HP values of a tagged stream: no tag, a tag, and a tag whose value is
\* false in a Python condition (the integer 0, the empty string).
HapTags == {NoTag, "hap1", ""}

\* The source files that are enumerated.  Region names are interchangeable
\* for split_bam but for their case and their membership in the two lists, so
\* a stream brings the names of its kind in order of first appearance.
\*   tagged: few regions, every kind of HP tag, reads without RN
\*   many:   more regions than the cache holds, no HP tag
TaggedSource ==
    [regions |-> <<"r1", "R1", "r2">>, haps |-> HapTags, untagged |-> TRUE,
     len |-> MaxReads]

ManySource ==
    [regions |-> <<"r1", "r2", "r3", "r4", "r5", "r6">>, haps |-> {NoTag},
     untagged |-> FALSE, len |-> MaxLongReads]

\* include_only_regions, exclude_regions of the calls on a tagged source
RegionLists == {<<{}, {}>>, <<{"r1"}, {}>>, <<{}, {"r1"}>>, <<{"r1"}, {"r2"}>>}

MaxReadsPerHap == {1, 2}

\* the subject that is partitioned
SampleName == "s1"

VARIABLES
    \* split_bam: position and arguments
    pc,                     \* "start", "loop", "finally", "returned", "raised", "done"
    include_only_regions,
    exclude_regions,
    max_reads_per_hap,
    \* split_bam: locals
    region_files_cache,     \* LRU order, least recently used first: <<[key, handle]>>
    result_abs_paths,       \* the keys of the dict
    result_relative_paths,  \* region -> RegionBamPaths
    haplotype_read_counts,  \* hp -> count
    exc,                    \* the pending exception, "none" when there is none
    \* the file system and the process
    files,                  \* region -> the reads of the data file of that region
    index,                  \* region -> what pysam.index saw when it built the index
    openWriters,            \* the writers that are open: [id, region]
    nopened,                \* writers created so far
    \* the source stream
    in_bam,                 \* the kind of source: its region names, HP values, length
    nread,                  \* reads consumed
    ntags,                  \* distinct RN values consumed
    \* history
    written,                \* region -> the reads handed to write(), in order
    last,                   \* what became of the latest read
    outcome,                \* what the caller of split_bam observes
    \* make_table_entries: position, arguments and locals
    tpc,                    \* "idle", "start", "loop", "returned", "raised"
    paraphase_json_calls,   \* unpack_json(...): None, or <<[region, data]>> in key order
    split_bams,             \* region -> RegionBamPaths
    paraphase_config,       \* region -> the entry of the region configuration
    pedigree_entry,         \* None or a PedigreeEntry
    sample_paraphase_results, \* the ParaphaseResults of the sample
    region_i,               \* keys of paraphase_json_calls consumed
    sample_entries,         \* the rows appended so far
    \* get_special_info: position, arguments and result
    ipc,                    \* "idle", "start", "annotated", "returned"
    info_region,            \* region_name
    info_data,              \* region_data: the record of the region in the call-metadata
    info_results,           \* paraphase_results: Sample, F8_INV, HAVANNO
    info_return,            \* None, or the pair that get_special_info returns
    \* make_trio_table_entries: position, arguments and locals
    trpc,                   \* "idle", "start", "loop", "returned", "raised"
    trio,                   \* the PedigreeEntry of the proband
    all_split_bams,         \* sample -> region -> RegionBamPaths
    trio_json_calls,        \* unpack_json(...) of the proband, the father, the mother
    trio_config,            \* paraphase_config
    trio_i,                 \* keys of the proband's call-metadata consumed
    trio_entries,           \* the rows appended so far
    trio_exc,               \* the exception that left the function, or "none"
    \* the output directory
    outdir_files,           \* path -> content, for the slices and their copies
    \* paraviewer(): position, inputs and locals
    rpc,                    \* "idle", "start", "loop", "individual", "trio", "exit", "raised", "done"
    args,                   \* clobber, no_igv_rerun
    pedigree_dict,          \* individual -> PedigreeEntry
    paraphase_dir,          \* the samples that have their three files in the directory
    run_documents,          \* sample -> what unpack_json returns for its call-metadata
    run_config,             \* paraphase_config
    all_paraphase_results,  \* the keys of the dict, in its order
    trio_samples,           \* the values of the dict, in its order
    run_i,                  \* subjects processed
    all_region_entries,     \* the rows of the report
    data_dir_exists,        \* <outdir>/data exists
    run_exit,               \* why the run ended before the report, "none" if it did not
    run_log,                \* history: [op, subject] of the calls made for the subjects
    table_data,             \* None, or the table that generate_table hands to the page
    \* main(): position and the region lists of the command line
    mpc,                    \* "idle", "start", "validated", "exit"
    arg_include_only_regions, \* --include-only-regions as typed
    arg_exclude_regions,    \* --exclude-regions as typed
    \* generate_igv_images: position, arguments and locals
    gpc,                    \* "idle", "start", "loop", "returned", "exit"
    platform,               \* "mac", "linux", "other"
    igv_batch_entries,      \* how many batch entries the subject has
    batch_filenames,        \* the batch scripts: how many entries each holds
    batch_i,                \* batch scripts consumed by the loop
    batch_files,            \* the batch scripts that exist in the output directory
    batch_runs,             \* history: [batch, result] of each iteration
    igv_errors,             \* the batches of the "IGV batch failed" log lines
    images_exit,            \* why sys.exit was called, "none" if it was not
    \* read_pedigree_file: position, arguments and locals
    ppc,                    \* "idle", "start", "loop", "returned", "exit"
    ped_file,               \* None, or the lines of the file
    ped_include_only_samples,
    ped_exclude_samples,
    ped_i,                  \* lines consumed
    ped_entries             \* the dict under construction: individual -> PedigreeEntry

splitVars == <<pc, include_only_regions, exclude_regions, max_reads_per_hap,
               region_files_cache, result_abs_paths, result_relative_paths,
               haplotype_read_counts, exc, files, index, openWriters, nopened,
               in_bam, nread, ntags, written, last, outcome>>

tableVars == <<tpc, paraphase_json_calls, split_bams, paraphase_config,
               pedigree_entry, sample_paraphase_results, region_i, sample_entries>>

infoVars == <<ipc, info_region, info_data, info_results, info_return>>

trioVars == <<trpc, trio, all_split_bams, trio_json_calls, trio_config, trio_i,
              trio_entries, trio_exc, outdir_files>>

runVars == <<rpc, args, pedigree_dict, paraphase_dir, run_documents, run_config,
             all_paraphase_results, trio_samples, run_i, all_region_entries,
             data_dir_exists, run_exit, run_log, table_data>>

mainVars == <<mpc, arg_include_only_regions, arg_exclude_regions>>

imageVars == <<gpc, platform, igv_batch_entries, batch_filenames, batch_i, batch_files,
               batch_runs, igv_errors, images_exit>>

pedVars == <<ppc, ped_file, ped_include_only_samples, ped_exclude_samples, ped_i,
             ped_entries>>

vars == <<splitVars, tableVars, infoVars, trioVars, runVars, mainVars, imageVars,
          pedVars>>

\* what a step of split_bam leaves alone, what a step of make_table_entries
\* leaves alone, what a step of get_special_info leaves alone
notSplitVars == <<tableVars, infoVars, trioVars, runVars, mainVars, imageVars, pedVars>>

notTableVars == <<splitVars, infoVars, trioVars, runVars, mainVars, imageVars, pedVars>>

notInfoVars == <<splitVars, tableVars, trioVars, runVars, mainVars, imageVars, pedVars>>

notTrioVars == <<splitVars, tableVars, infoVars, runVars, mainVars, imageVars, pedVars>>

\* ------------------------------------------------------------------------
\* Helpers

\* str.lower() on the names of the model
Lower(s) == IF s = "R1" THEN "r1" ELSE s

\* the truth value of a tag value in a Python condition
Truthy(x) == x # ""

\* the truth value of a list in a Python condition
TruthyList(l) == l # {}

EmptyMap == [x \in {} |-> x]

\* An Optional value: None, or a value
None == <<>>

Some(x) == <<x>>

IsNone(o) == o = <<>>

ValueOf(o) == o[1]

\* d[k] = v
Put(d, k, v) == [x \in DOMAIN d \cup {k} |-> IF x = k THEN v ELSE d[x]]

\* read.has_tag(t)
HasTag(v) == v # NoTag

\* a bug: the slices are written to the image directory of the sample
NewBamPath_InImages(sample, region) == <<"data", sample, "images", sample, region, ".bam">>

\* new_bam_pattern.format(sample, region_name): data/<sample>/bams/<sample>_<region>.bam
NewBamPath(sample, region) == <<"data", sample, "bams", sample, region, ".bam">>

RegionBamPaths(sample, region) ==
    [BAM |-> NewBamPath(sample, region),
     BAI |-> NewBamPath(sample, region) \o <<".bai">>]

\* ---- cachetools.LRUCache -------------------------------------------------

CacheKeys(cache) == {cache[i].key : i \in DOMAIN cache}

CacheHandles(cache) == {cache[i].handle : i \in DOMAIN cache}

CacheIndexOf(cache, k) == CHOOSE i \in DOMAIN cache : cache[i].key = k

\* cache[k]: the key becomes the most recently used
CacheTouch(cache, k) ==
    LET i == CacheIndexOf(cache, k)
    IN  SubSeq(cache, 1, i - 1) \o SubSeq(cache, i + 1, Len(cache)) \o <<cache[i]>>

\* cache[k] = h for a key that is not in the cache: the least recently used
\* entries are popped until the new one fits
CacheSet(cache, k, h) ==
    LET drop == IF Len(cache) + 1 > CacheMaxSize
                THEN Len(cache) + 1 - CacheMaxSize ELSE 0
    IN  SubSeq(cache, drop + 1, Len(cache)) \o <<[key |-> k, handle |-> h]>>

\* ---- the tests of the loop body ------------------------------------------

\* a bug: the test for the RN tag is missing
SkipsNoRegion_Never(read) == FALSE

\* if not read.has_tag("RN"): continue
SkipsNoRegion(read) == ~HasTag(read.rn)

\* if include_only_regions and region_name.lower() not in include_only_regions
SkipsInclude(region_name) ==
    TruthyList(include_only_regions) /\ Lower(region_name) \notin include_only_regions

\* a bug: the tag is compared as it is, not lower-cased
SkipsExclude_CaseSensitive(region_name) ==
    TruthyList(exclude_regions) /\ region_name \in exclude_regions

\* if exclude_regions and region_name.lower() in exclude_regions
SkipsExclude(region_name) ==
    TruthyList(exclude_regions) /\ Lower(region_name) \in exclude_regions

\* hp = "unknown"; if read.has_tag("HP"): hp = read.get_tag("HP")
HapOf(read) == IF HasTag(read.hp) THEN read.hp ELSE UnknownHap

\* the key under which the quota of a read is counted
QuotaKey(region_name, hp) == hp

\* if hp and hp not in haplotype_read_counts: haplotype_read_counts[hp] = 0
CountsInit(counts, key, hp) ==
    IF Truthy(hp) /\ key \notin DOMAIN counts THEN counts @@ (key :> 0) ELSE counts

\* if hp and haplotype_read_counts[hp] >= max_reads_per_hap: continue
SkipsQuota(counts, key, hp) == Truthy(hp) /\ counts[key] >= max_reads_per_hap

\* if hp: haplotype_read_counts[hp] += 1
CountsIncrement(counts, key, hp) ==
    IF Truthy(hp) THEN [counts EXCEPT ![key] = @ + 1] ELSE counts

\* the read passes every test before the writer is looked up
Retained(read) ==
    /\ ~SkipsNoRegion(read)
    /\ ~SkipsInclude(read.rn)
    /\ ~SkipsExclude(read.rn)
    /\ ~SkipsQuota(CountsInit(haplotype_read_counts, QuotaKey(read.rn, HapOf(read)), HapOf(read)),
                   QuotaKey(read.rn, HapOf(read)), HapOf(read))

\* ------------------------------------------------------------------------
\* The source stream

\* the reads that may come next: a region name met before or the first new
\* one, with any HP value of the source; or a read without RN
NextReads ==
    [rn : {in_bam.regions[i] : i \in {j \in DOMAIN in_bam.regions : j <= ntags + 1}},
     hp : in_bam.haps]
    \cup (IF in_bam.untagged THEN {[rn |-> NoTag, hp |-> NoTag]} ELSE {})

TagsAfter(read) ==
    IF HasTag(read.rn) /\ ntags < Len(in_bam.regions) /\ read.rn = in_bam.regions[ntags + 1]
    THEN ntags + 1 ELSE ntags

Stamp(read) == [id |-> nread + 1, rn |-> read.rn, hp |-> read.hp]

\* ------------------------------------------------------------------------
\* split_bam

NoRead == [id |-> 0, rn |-> NoTag, hp |-> NoTag, verdict |-> "none"]

Verdict(read) ==
    IF SkipsNoRegion(read) THEN "no_region"
    ELSE IF SkipsInclude(read.rn) \/ SkipsExclude(read.rn) THEN "filtered"
    ELSE IF ~Retained(read) THEN "quota"
    ELSE "retained"

Seen(read) == [id |-> nread + 1, rn |-> read.rn, hp |-> read.hp, verdict |-> Verdict(read)]

\* no call of make_table_entries
TableIdle ==
    /\ tpc = "idle"
    /\ paraphase_json_calls = None
    /\ split_bams = EmptyMap
    /\ paraphase_config = EmptyMap
    /\ pedigree_entry = None
    /\ sample_paraphase_results = None
    /\ region_i = 0
    /\ sample_entries = <<>>

\* get_special_info is not called
InfoIdle ==
    /\ ipc = "idle"
    /\ info_region = ""
    /\ info_data = EmptyMap
    /\ info_results = EmptyMap
    /\ info_return = None

\* make_trio_table_entries is not called
TrioIdle ==
    /\ trpc = "idle"
    /\ trio = None
    /\ all_split_bams = EmptyMap
    /\ trio_json_calls = None
    /\ trio_config = EmptyMap
    /\ trio_i = 0
    /\ trio_entries = <<>>
    /\ trio_exc = "none"
    /\ outdir_files = EmptyMap

\* paraviewer() is not called
RunIdle ==
    /\ rpc = "idle"
    /\ args = None
    /\ pedigree_dict = EmptyMap
    /\ paraphase_dir = {}
    /\ run_documents = EmptyMap
    /\ run_config = EmptyMap
    /\ all_paraphase_results = <<>>
    /\ trio_samples = <<>>
    /\ run_i = 0
    /\ all_region_entries = <<>>
    /\ data_dir_exists = FALSE
    /\ run_exit = "none"
    /\ run_log = <<>>
    /\ table_data = None

\* main() is not called
MainIdle ==
    /\ mpc = "idle"
    /\ arg_include_only_regions = {}
    /\ arg_exclude_regions = {}

\* generate_igv_images is not called
ImagesIdle ==
    /\ gpc = "idle"
    /\ platform = "linux"
    /\ igv_batch_entries = 0
    /\ batch_filenames = <<>>
    /\ batch_i = 0
    /\ batch_files = {}
    /\ batch_runs = <<>>
    /\ igv_errors = <<>>
    /\ images_exit = "none"

\* read_pedigree_file is not called
PedigreeIdle ==
    /\ ppc = "idle"
    /\ ped_file = None
    /\ ped_include_only_samples = {}
    /\ ped_exclude_samples = {}
    /\ ped_i = 0
    /\ ped_entries = EmptyMap

\* split_bam before its first statement
SplitLocalsInit ==
    /\ region_files_cache = <<>>
    /\ result_abs_paths = {}
    /\ result_relative_paths = EmptyMap
    /\ haplotype_read_counts = EmptyMap
    /\ exc = "none"
    /\ files = EmptyMap
    /\ index = EmptyMap
    /\ openWriters = {}
    /\ nopened = 0
    /\ nread = 0
    /\ ntags = 0
    /\ written = EmptyMap
    /\ last = NoRead
    /\ outcome = "pending"

\* no call of split_bam
SplitIdle ==
    /\ pc = "idle"
    /\ in_bam = TaggedSource
    /\ include_only_regions = {}
    /\ exclude_regions = {}
    /\ max_reads_per_hap = DefaultMaxReadsPerHap
    /\ SplitLocalsInit

InitSplit ==
    /\ pc = "start"
    /\ PedigreeIdle
    /\ ImagesIdle
    /\ MainIdle
    /\ RunIdle
    /\ TableIdle
    /\ InfoIdle
    /\ TrioIdle
    /\ \/ /\ in_bam = TaggedSource
          /\ \E l \in RegionLists :
                /\ include_only_regions = l[1]
                /\ exclude_regions = l[2]
          /\ max_reads_per_hap \in MaxReadsPerHap
       \/ /\ in_bam = ManySource
          /\ include_only_regions = {}
          /\ exclude_regions = {}
          /\ max_reads_per_hap = DefaultMaxReadsPerHap
    /\ SplitLocalsInit

\* with pysam.AlignmentFile(bam_path, "rb") as in_bam, and the new header
OpenSource ==
    /\ UNCHANGED notSplitVars
    /\ pc = "start"
    /\ pc' = "loop"
    /\ UNCHANGED <<include_only_regions, exclude_regions, max_reads_per_hap,
                   region_files_cache, result_abs_paths, result_relative_paths,
                   haplotype_read_counts, exc, files, index, openWriters, nopened,
                   in_bam, nread, ntags, written, last, outcome>>

\* the source cannot be opened: the exception leaves through the finally block
OpenFails ==
    /\ UNCHANGED notSplitVars
    /\ pc = "start"
    /\ pc' = "finally"
    /\ exc' = "open"
    /\ UNCHANGED <<include_only_regions, exclude_regions, max_reads_per_hap,
                   region_files_cache, result_abs_paths, result_relative_paths,
                   haplotype_read_counts, files, index, openWriters, nopened,
                   in_bam, nread, ntags, written, last, outcome>>

\* the writer that pysam.AlignmentFile(bam_out_path, "wb", ...) returns
NewWriter(region_name) == [id |-> nopened + 1, region |-> region_name]

\* if region_name not in region_files_cache: the cache after the block
CacheAfterLookup(region_name) ==
    IF region_name \in CacheKeys(region_files_cache)
    THEN region_files_cache
    ELSE CacheSet(region_files_cache, region_name, NewWriter(region_name))

\* mode "wb": the file is created, or truncated when it exists
FilesAfterLookup(region_name) ==
    IF region_name \in CacheKeys(region_files_cache)
    THEN files
    ELSE Put(files, region_name, <<>>)

\* the new writer is open; the evicted one is dropped by the cache and
\* nothing closes it
WritersAfterLookup(region_name) ==
    IF region_name \in CacheKeys(region_files_cache)
    THEN openWriters
    ELSE openWriters \cup {NewWriter(region_name)}

SeqOf(d, k) == IF k \in DOMAIN d THEN d[k] ELSE <<>>

\* one iteration of "for read in in_bam"
ReadStep(read) ==
    /\ UNCHANGED notSplitVars
    /\ pc = "loop"
    /\ nread < in_bam.len
    /\ nread' = nread + 1
    /\ ntags' = TagsAfter(read)
    /\ last' = Seen(read)
    /\ IF SkipsNoRegion(read) \/ SkipsInclude(read.rn) \/ SkipsExclude(read.rn)
       THEN UNCHANGED <<region_files_cache, result_abs_paths, haplotype_read_counts,
                        files, openWriters, nopened, written>>
       ELSE LET hp == HapOf(read)
                key == QuotaKey(read.rn, hp)
                counts == CountsInit(haplotype_read_counts, key, hp)
            IN  IF SkipsQuota(counts, key, hp)
                THEN /\ haplotype_read_counts' = counts
                     /\ UNCHANGED <<region_files_cache, result_abs_paths, files,
                                    openWriters, nopened, written>>
                ELSE /\ region_files_cache' =
                            CacheTouch(CacheAfterLookup(read.rn), read.rn)
                     /\ openWriters' = WritersAfterLookup(read.rn)
                     /\ nopened' = IF read.rn \in CacheKeys(region_files_cache)
                                   THEN nopened ELSE nopened + 1
                     /\ result_abs_paths' = result_abs_paths \cup {read.rn}
                     /\ files' = [FilesAfterLookup(read.rn) EXCEPT
                                    ![read.rn] = Append(@, Stamp(read))]
                     /\ written' = Put(written, read.rn,
                                       Append(SeqOf(written, read.rn), Stamp(read)))
                     /\ haplotype_read_counts' = CountsIncrement(counts, key, hp)
    /\ UNCHANGED <<pc, include_only_regions, exclude_regions, max_reads_per_hap,
                   result_relative_paths, exc, index, in_bam, outcome>>

\* the iterator raises
ReadFails ==
    /\ UNCHANGED notSplitVars
    /\ pc = "loop"
    /\ pc' = "finally"
    /\ exc' = "read"
    /\ UNCHANGED <<include_only_regions, exclude_regions, max_reads_per_hap,
                   region_files_cache, result_abs_paths, result_relative_paths,
                   haplotype_read_counts, files, index, openWriters, nopened,
                   in_bam, nread, ntags, written, last, outcome>>

\* pysam.AlignmentFile(bam_out_path, "wb", ...) raises
CreateFails(read) ==
    /\ UNCHANGED notSplitVars
    /\ pc = "loop"
    /\ nread < in_bam.len
    /\ Retained(read)
    /\ read.rn \notin CacheKeys(region_files_cache)
    /\ pc' = "finally"
    /\ exc' = "create"
    /\ nread' = nread + 1
    /\ ntags' = TagsAfter(read)
    /\ last' = [Seen(read) EXCEPT !.verdict = "raised"]
    /\ haplotype_read_counts' =
            CountsInit(haplotype_read_counts, QuotaKey(read.rn, HapOf(read)), HapOf(read))
    /\ UNCHANGED <<include_only_regions, exclude_regions, max_reads_per_hap,
                   region_files_cache, result_abs_paths, result_relative_paths,
                   files, index, openWriters, nopened, in_bam, written, outcome>>

\* region_files_cache[region_name].write(read) raises
WriteFails(read) ==
    /\ UNCHANGED notSplitVars
    /\ pc = "loop"
    /\ nread < in_bam.len
    /\ Retained(read)
    /\ pc' = "finally"
    /\ exc' = "write"
    /\ nread' = nread + 1
    /\ ntags' = TagsAfter(read)
    /\ last' = [Seen(read) EXCEPT !.verdict = "raised"]
    /\ haplotype_read_counts' =
            CountsInit(haplotype_read_counts, QuotaKey(read.rn, HapOf(read)), HapOf(read))
    /\ region_files_cache' = CacheTouch(CacheAfterLookup(read.rn), read.rn)
    /\ openWriters' = WritersAfterLookup(read.rn)
    /\ nopened' = IF read.rn \in CacheKeys(region_files_cache)
                  THEN nopened ELSE nopened + 1
    /\ result_abs_paths' = result_abs_paths \cup {read.rn}
    /\ files' = FilesAfterLookup(read.rn)
    /\ UNCHANGED <<include_only_regions, exclude_regions, max_reads_per_hap,
                   result_relative_paths, index, in_bam, written, outcome>>

\* the stream is exhausted
EndOfStream ==
    /\ UNCHANGED notSplitVars
    /\ pc = "loop"
    /\ pc' = "finally"
    /\ UNCHANGED <<include_only_regions, exclude_regions, max_reads_per_hap,
                   region_files_cache, result_abs_paths, result_relative_paths,
                   haplotype_read_counts, exc, files, index, openWriters, nopened,
                   in_bam, nread, ntags, written, last, outcome>>

\* for file_handle in region_files_cache.values(): file_handle.close()
WritersAfterClose == openWriters \ CacheHandles(region_files_cache)

\* the finally block: the cached writers are closed, then every path of
\* result_abs_paths is indexed and reported
Finally ==
    /\ UNCHANGED notSplitVars
    /\ pc = "finally"
    /\ openWriters' = WritersAfterClose
    /\ index' = [r \in result_abs_paths |->
                    [reads |-> files[r],
                     open |-> {h \in WritersAfterClose : h.region = r}]]
    /\ result_relative_paths' =
            [r \in result_abs_paths |-> RegionBamPaths(SampleName, r)]
    /\ pc' = IF exc = "none" THEN "returned" ELSE "raised"
    /\ UNCHANGED <<include_only_regions, exclude_regions, max_reads_per_hap,
                   region_files_cache, result_abs_paths, haplotype_read_counts,
                   exc, files, nopened, in_bam, nread, ntags, written, last, outcome>>

\* A writer that the cache evicted is referenced by nothing.  Its file is
\* closed when the interpreter finalizes the object: at once, later, or
\* not before the process ends.
Finalize(h) ==
    /\ UNCHANGED notSplitVars
    /\ h \in openWriters
    /\ h \notin CacheHandles(region_files_cache)
    /\ openWriters' = openWriters \ {h}
    /\ UNCHANGED <<pc, include_only_regions, exclude_regions, max_reads_per_hap,
                   region_files_cache, result_abs_paths, result_relative_paths,
                   haplotype_read_counts, exc, files, index, nopened,
                   in_bam, nread, ntags, written, last, outcome>>

\* process_individual_sample: what the call of split_bam yields
CallerOutcome ==
    IF pc = "raised" THEN "exception"
    ELSE IF Cardinality(DOMAIN result_relative_paths) = 0 THEN "no_matching_regions"
    ELSE "aggregate"

CallerObserves ==
    /\ UNCHANGED notSplitVars
    /\ pc \in {"returned", "raised"}
    /\ pc' = "done"
    /\ outcome' = CallerOutcome
    /\ UNCHANGED <<include_only_regions, exclude_regions, max_reads_per_hap,
                   region_files_cache, result_abs_paths, result_relative_paths,
                   haplotype_read_counts, exc, files, index, openWriters, nopened,
                   in_bam, nread, ntags, written, last>>

Init == InitSplit

Next ==
    \/ OpenSource
    \/ OpenFails
    \/ \E read \in NextReads : ReadStep(read)
    \/ ReadFails
    \/ \E read \in NextReads : CreateFails(read)
    \/ \E read \in NextReads : WriteFails(read)
    \/ EndOfStream
    \/ Finally
    \/ \E h \in openWriters : Finalize(h)
    \/ CallerObserves

Spec == Init /\ [][Next]_vars

\* ------------------------------------------------------------------------
\* Properties of split_bam

\* the reads of seq whose haplotype group is hp
HapCount(seq, hp) == Cardinality({i \in DOMAIN seq : HapOf(seq[i]) = hp})

HapGroups == {HapOf([rn |-> NoTag, hp |-> t]) : t \in HapTags}

Returned == pc \in {"returned", "done"} /\ exc = "none"

Left == pc \in {"returned", "raised", "done"}

\* C1: after split_bam has returned without an exception, the data file of
\* every region of the returned map holds exactly the reads that were
\* written for that region, in source order.
C1_NoDataLost ==
    Returned =>
        \A r \in DOMAIN result_relative_paths : files[r] = written[r]

C3_QuotaBound ==
    \A r \in DOMAIN written : \A hp \in HapGroups :
        HapCount(written[r], hp) <= max_reads_per_hap

\* C4: a read is dropped by the quota only if the reads written for its own
\* region and its own haplotype group have reached max_reads_per_hap.
C4_QuotaPerPair ==
    last.verdict = "quota" =>
        HapCount(SeqOf(written, last.rn), HapOf(last)) >= max_reads_per_hap

\* C5: a read without the RN tag is in no data file and no map, and the step
\* that consumes it leaves the files, the writers, the cache, the maps and
\* the haplotype counters as they were.
C5_NoRegionNeverWritten ==
    /\ [](/\ \A r \in DOMAIN files : \A i \in DOMAIN files[r] : files[r][i].rn # NoTag
          /\ NoTag \notin DOMAIN files \cup result_abs_paths \cup DOMAIN result_relative_paths
          /\ \A h \in openWriters : h.region # NoTag)
    /\ [][(nread' = nread + 1 /\ last'.rn = NoTag) =>
            UNCHANGED <<files, written, openWriters, nopened, region_files_cache,
                        result_abs_paths, result_relative_paths,
                        haplotype_read_counts>>]_vars

C5_Witness ==
    /\ last.rn = NoTag
    /\ last.id > 1
    /\ DOMAIN files # {}
    /\ DOMAIN haplotype_read_counts # {}

\* the lower-cased tag fails the include test or the exclude test
FailsLists(rn) ==
    \/ include_only_regions # {} /\ Lower(rn) \notin include_only_regions
    \/ exclude_regions # {} /\ Lower(rn) \in exclude_regions

\* C6: every read in a data file has a region tag that passes the include
\* list and the exclude list (lower-cased, a list that is empty passes
\* everything), and the step that consumes a read failing either list
\* leaves the files, the writers, the cache, the maps and the counters as
\* they were.
C6_RegionFiltering ==
    /\ [](\A r \in DOMAIN files : \A i \in DOMAIN files[r] : ~FailsLists(files[r][i].rn))
    /\ [][(nread' = nread + 1 /\ last'.rn # NoTag /\ FailsLists(last'.rn)) =>
            UNCHANGED <<files, written, openWriters, nopened, region_files_cache,
                        result_abs_paths, result_relative_paths,
                        haplotype_read_counts>>]_vars

C6_Witness ==
    /\ include_only_regions # {}
    /\ exclude_regions # {}
    /\ last.rn # NoTag
    /\ FailsLists(last.rn)
    /\ \E r \in DOMAIN files : files[r] # <<>> /\ r # Lower(r)

C8_NoMatchingRegions ==
    (pc = "done" /\ (exc = "open" \/ (exc = "none" /\ DOMAIN result_relative_paths = {})))
        => outcome = "no_matching_regions"

\* C9: at most CacheMaxSize writers are open at any time.
C9_BoundedWriters ==
    Cardinality(openWriters) <= CacheMaxSize

\* ------------------------------------------------------------------------
\* genomic_interval_from_str

\* A string is the sequence of its characters.
Digits == <<"0", "1", "2", "3", "4", "5", "6", "7", "8", "9">>

IsDigit(c) == \E i \in DOMAIN Digits : Digits[i] = c

DigitValue(c) == (CHOOSE i \in DOMAIN Digits : Digits[i] = c) - 1

\* str.strip(): the blanks at both ends are dropped
RECURSIVE StripLeft(_)
StripLeft(s) == IF s # <<>> /\ Head(s) = " " THEN StripLeft(Tail(s)) ELSE s

RECURSIVE StripRight(_)
StripRight(s) ==
    IF s # <<>> /\ s[Len(s)] = " " THEN StripRight(SubSeq(s, 1, Len(s) - 1)) ELSE s

Strip(s) == StripRight(StripLeft(s))

\* str.split(sep): the pieces between the separators
RECURSIVE Split(_, _)
Split(s, sep) ==
    IF \E i \in DOMAIN s : s[i] = sep
    THEN LET i == CHOOSE j \in DOMAIN s : s[j] = sep /\ \A k \in 1..(j - 1) : s[k] # sep
         IN  <<SubSeq(s, 1, i - 1)>> \o Split(SubSeq(s, i + 1, Len(s)), sep)
    ELSE <<s>>

\* a bug: the digit grouping separators are kept
WithoutCommas_Kept(s) == s

\* str.replace(",", "")
WithoutCommas(s) == SelectSeq(s, LAMBDA c : c # ",")

\* the digits of an int literal: the blanks around it and one sign are dropped
IntBody(s) ==
    LET t == Strip(s)
    IN  IF t # <<>> /\ Head(t) \in {"+", "-"} THEN Tail(t) ELSE t

\* int(s) does not raise ValueError
IsIntLiteral(s) ==
    /\ IntBody(s) # <<>>
    /\ \A i \in DOMAIN IntBody(s) : IsDigit(IntBody(s)[i])

RECURSIVE DigitsValue(_)
DigitsValue(s) ==
    IF s = <<>> THEN 0
    ELSE 10 * DigitsValue(SubSeq(s, 1, Len(s) - 1)) + DigitValue(s[Len(s)])

\* int(s)
IntOf(s) ==
    IF Strip(s) # <<>> /\ Head(Strip(s)) = "-"
    THEN 0 - DigitsValue(IntBody(s))
    ELSE DigitsValue(IntBody(s))

\* what genomic_interval_from_str raises
ValueError == [raised |-> "ValueError"]

\* GenomicInterval(chrom_part, start, end), or ValueError
GenomicIntervalFromStr(region_str) ==
    LET parts == Split(Strip(region_str), ":")
    IN  IF Len(parts) # 2 THEN ValueError
        ELSE LET pos == Split(parts[2], "-")
             IN  IF Len(pos) # 2 THEN ValueError
                 ELSE IF ~IsIntLiteral(WithoutCommas(pos[1])) THEN ValueError
                 ELSE IF ~IsIntLiteral(WithoutCommas(pos[2])) THEN ValueError
                 ELSE IF IntOf(WithoutCommas(pos[1])) < 0
                         \/ IntOf(WithoutCommas(pos[2])) < 0 THEN ValueError
                 ELSE [Chrom |-> parts[1],
                       Start |-> IntOf(WithoutCommas(pos[1])),
                       End |-> IntOf(WithoutCommas(pos[2]))]

\* ------------------------------------------------------------------------
\* make_table_entries: inputs

\* REGION_PADDING = 1000
REGION_PADDING == 1000

\* the region identifiers of the call-metadata, the partition map and the
\* configuration
TableRegions == {"smn1", "f8", "hba"}

\* the "realign_region" strings of the configurations that are enumerated
Coord_Plain == <<"c", ":", "5", "-", "9">>

Coord_Grouped == <<"c", ":", "2", ",", "0", "0", "0", "-", "3", ",", "5", "0", "0">>

Coord_NoColon == <<"c", "5", "-", "9">>

Coord_Negative == <<"c", ":", "-", "5", "-", "9">>

Coord_NotNumeric == <<"c", ":", "x", "-", "9">>

\* an entry of the configuration: with a "realign_region", or without the key
ConfigEntries ==
    {[realign_region |-> d] :
        d \in {Coord_Plain, Coord_Grouped, Coord_NoColon, Coord_Negative, Coord_NotNumeric}}
    \cup {[genes |-> "g"]}

\* the configurations: any regions, any entries
Configs == UNION {[D -> ConfigEntries] : D \in SUBSET TableRegions}

\* The values of a JSON document: null, a number, a str, a list, an object
\* (its keys in document order)
JsonNull == [type |-> "null"]

JInt(n) == [type |-> "int", val |-> n]

JStr(s) == [type |-> "str", val |-> s]

JList(items) == [type |-> "list", items |-> items]

JDict(keys) == [type |-> "dict", keys |-> keys]

\* the record of a region in the call-metadata
CallData(region) ==
    CASE region = "smn1" -> [smn1_cn |-> JInt(2), smn2_cn |-> JInt(3)]
      [] region = "f8" -> [gene_cn |-> JsonNull, total_cn |-> JInt(2)]
      [] OTHER -> [gene_cn |-> JInt(4), total_cn |-> JInt(5), highest_total_cn |-> JInt(6)]

\* the sequences of distinct regions of length n: the keys of a JSON object
RECURSIVE KeyOrders(_)
KeyOrders(n) ==
    IF n = 0 THEN {<<>>}
    ELSE {Append(q, r) : q \in KeyOrders(n - 1), r \in TableRegions}

DistinctKeyOrders(n) ==
    {q \in KeyOrders(n) : \A i, j \in DOMAIN q : i # j => q[i] # q[j]}

\* the call-metadata that unpack_json returns: None (no file, not gzip, not
\* JSON), or the object with its keys in document order
JsonCalls(maxKeys) ==
    {None} \cup
    {Some([i \in DOMAIN q |-> [region |-> q[i], data |-> CallData(q[i])]]) :
        q \in UNION {DistinctKeyOrders(n) : n \in 0..maxKeys}}

PedigreeEntries ==
    {None,
     Some([FamilyID |-> "fam1", IndividualID |-> SampleName, PaternalID |-> "p1",
           MaternalID |-> "", Sex |-> "Male", Phenotype |-> "2"])}

\* ------------------------------------------------------------------------
\* special_info.py

\* The characters of the names of the model.
Chars(name) ==
    CASE name = "fusions_called" -> <<"f", "u", "s", "i", "o", "n", "s", "_", "c", "a", "l", "l", "e", "d">>
      [] name = "sv_called" -> <<"s", "v", "_", "c", "a", "l", "l", "e", "d">>
      [] name = "genotype" -> <<"g", "e", "n", "o", "t", "y", "p", "e">>
      [] name = "alleles_final" -> <<"a", "l", "l", "e", "l", "e", "s", "_", "f", "i", "n", "a", "l">>
      [] name = "deletion_haplotypes" -> <<"d", "e", "l", "e", "t", "i", "o", "n", "_", "h", "a", "p", "l", "o", "t", "y", "p", "e", "s">>
      [] name = "annotated_haplotypes" -> <<"a", "n", "n", "o", "t", "a", "t", "e", "d", "_", "h", "a", "p", "l", "o", "t", "y", "p", "e", "s">>
      [] name = "annotated_alleles" -> <<"a", "n", "n", "o", "t", "a", "t", "e", "d", "_", "a", "l", "l", "e", "l", "e", "s">>
      [] name = "ending_hap" -> <<"e", "n", "d", "i", "n", "g", "_", "h", "a", "p">>
      [] name = "smn1_cn" -> <<"s", "m", "n", "1", "_", "c", "n">>
      [] name = "smn2_cn" -> <<"s", "m", "n", "2", "_", "c", "n">>
      [] name = "smn2_del78_cn" -> <<"s", "m", "n", "2", "_", "d", "e", "l", "7", "8", "_", "c", "n">>
      [] name = "not_listed" -> <<"n", "o", "t", "_", "l", "i", "s", "t", "e", "d">>
      [] name = "SMN1" -> <<"S", "M", "N", "1">>
      [] name = "smn1" -> <<"s", "m", "n", "1">>
      [] name = "hba" -> <<"h", "b", "a">>
      [] name = "F8" -> <<"F", "8">>
      [] name = "f8" -> <<"f", "8">>
      [] name = "exf8b" -> <<"e", "x", "f", "8", "b">>

UpperCase ==
    <<"A", "B", "C", "D", "E", "F", "G", "H", "I", "J", "K", "L", "M",
      "N", "O", "P", "Q", "R", "S", "T", "U", "V", "W", "X", "Y", "Z">>

LowerCase ==
    <<"a", "b", "c", "d", "e", "f", "g", "h", "i", "j", "k", "l", "m",
      "n", "o", "p", "q", "r", "s", "t", "u", "v", "w", "x", "y", "z">>

\* the characters of the names in code point order
CodePointOrder == Digits \o UpperCase \o <<"_">> \o LowerCase

CodePoint(c) == CHOOSE i \in DOMAIN CodePointOrder : CodePointOrder[i] = c

\* str.lower(), character by character
LowerChars(s) ==
    [i \in DOMAIN s |->
        IF \E j \in DOMAIN UpperCase : UpperCase[j] = s[i]
        THEN LowerCase[CHOOSE j \in DOMAIN UpperCase : UpperCase[j] = s[i]]
        ELSE s[i]]

\* sub in s
Contains(s, sub) ==
    \E i \in 0..(Len(s) - Len(sub)) : SubSeq(s, i + 1, i + Len(sub)) = sub

\* a < b for two str
RECURSIVE StrLess(_, _)
StrLess(a, b) ==
    IF b = <<>> THEN FALSE
    ELSE IF a = <<>> THEN TRUE
    ELSE IF Head(a) # Head(b) THEN CodePoint(Head(a)) < CodePoint(Head(b))
    ELSE StrLess(Tail(a), Tail(b))

NameLess(a, b) == StrLess(Chars(a), Chars(b))

\* chain(*cmrg_special_fields.values()): the field names in the order of
\* the dict of define_special_fields
SpecialFieldsChain ==
    <<"fusions_called", "sv_called", "fusions_called", "genotype", "sv_called",
      "alleles_final", "deletion_haplotypes", "alleles_final",
      "annotated_haplotypes", "alleles_final", "annotated_alleles",
      "alleles_final", "ending_hap", "annotated_alleles", "smn1_cn", "smn2_cn",
      "smn2_del78_cn">>

\* set(...): every name once
RECURSIVE Distinct(_)
Distinct(s) ==
    IF s = <<>> THEN <<>>
    ELSE LET d == Distinct(SubSeq(s, 1, Len(s) - 1))
         IN  IF \E i \in DOMAIN d : d[i] = s[Len(s)] THEN d ELSE Append(d, s[Len(s)])

\* a bug: the names are taken in the order of the dict
SortedSpecialFields_Unsorted == Distinct(SpecialFieldsChain)

\* sorted(set([str(x) for x in chain(*cmrg_special_fields.values())]))
SortedSpecialFields == SortSeq(Distinct(SpecialFieldsChain), NameLess)

\* A text is the sequence of its pieces: a piece is a separator character
\* or a word that neither starts nor ends with a separator character.

\* str(n)
RECURSIVE IntText(_)
IntText(n) ==
    IF n < 10 THEN <<Digits[n + 1]>>
    ELSE IntText(n \div 10) \o <<Digits[(n % 10) + 1]>>

\* "{}".format(v) for a number or a str
StrOf(v) ==
    IF v.type = "int" THEN IntText(v.val)
    ELSE IF v.val = "" THEN <<>> ELSE <<v.val>>

\* sep.join(texts)
RECURSIVE Join(_, _)
Join(texts, sep) ==
    IF texts = <<>> THEN <<>>
    ELSE IF Len(texts) = 1 THEN texts[1]
    ELSE texts[1] \o sep \o Join(Tail(texts), sep)

\* str.strip(chars)
RECURSIVE StripCharsLeft(_, _)
StripCharsLeft(s, chars) ==
    IF s # <<>> /\ Head(s) \in chars THEN StripCharsLeft(Tail(s), chars) ELSE s

RECURSIVE StripCharsRight(_, _)
StripCharsRight(s, chars) ==
    IF s # <<>> /\ s[Len(s)] \in chars
    THEN StripCharsRight(SubSeq(s, 1, Len(s) - 1), chars) ELSE s

StripChars(s, chars) == StripCharsRight(StripCharsLeft(s, chars), chars)

\* what an item of a list adds to field_joined: " | ".join(str(x) for x in
\* field) for a list, the item itself for a str
ListItemText(field) ==
    IF field.type = "list"
    THEN Join([i \in DOMAIN field.items |-> StrOf(field.items[i])], <<" ", "|", " ">>)
    ELSE StrOf(field)

\* field_joined += field raises TypeError for an item that is no str
ListItemRaises(field) == field.type \notin {"list", "str"}

\* the entry that a field appends to special_info
FieldText(special_field_name, special_info_field_data) ==
    IF special_info_field_data.type = "list"
    THEN <<special_field_name, ":", " ">>
         \o Join([i \in DOMAIN special_info_field_data.items |->
                    ListItemText(special_info_field_data.items[i])], <<",", " ">>)
    ELSE IF special_info_field_data.type = "dict"
    THEN <<special_field_name, ",">>
         \o Join([i \in DOMAIN special_info_field_data.keys |->
                    <<special_info_field_data.keys[i]>>], <<",", " ">>)
    ELSE <<special_field_name, ",">> \o StrOf(special_info_field_data)

\* the field is in region_data and none of the continue statements is taken
Surfaces(region_data, special_field_name) ==
    /\ special_field_name \in DOMAIN region_data
    /\ region_data[special_field_name] # JsonNull
    /\ region_data[special_field_name] # JStr("NA")
    /\ region_data[special_field_name].type = "list" =>
            region_data[special_field_name].items # <<>>
    /\ region_data[special_field_name].type = "dict" =>
            region_data[special_field_name].keys # <<>>

\* special_info after the for loop
GenericSpecialInfo(region_data) ==
    LET names == SelectSeq(SortedSpecialFields, LAMBDA n : Surfaces(region_data, n))
    IN  [i \in DOMAIN names |-> FieldText(names[i], region_data[names[i]])]

\* the for loop raises TypeError
GenericRaises(region_data) ==
    \E n \in DOMAIN region_data :
        /\ \E i \in DOMAIN SortedSpecialFields : SortedSpecialFields[i] = n
        /\ region_data[n].type = "list"
        /\ \E i \in DOMAIN region_data[n].items : ListItemRaises(region_data[n].items[i])

\* a bug: the identifier is searched as it is, not lower-cased
IsF8_CaseSensitive(region) == Contains(Chars(region), <<"f", "8">>)

\* is_f8 = "f8" in region_name.lower()
IsF8(region) == Contains(LowerChars(Chars(region)), <<"f", "8">>)

\* special_info after the statements that follow the loop
AfterOverrides(region, generic, results) ==
    LET kept == IF IsF8(region) THEN <<>> ELSE generic
    IN  IF results.F8_INV # <<>> THEN Append(kept, results.F8_INV)
        ELSE IF ~IsF8(region) /\ results.HAVANNO # EmptyMap
                /\ region \in DOMAIN results.HAVANNO
        THEN Append(kept, results.HAVANNO[region])
        ELSE kept

\* a bug: total_cn is preferred to gene_cn
GetCopyNumber_TotalFirst(region_data) ==
    IF "total_cn" \in DOMAIN region_data /\ region_data["total_cn"] # JsonNull
    THEN region_data["total_cn"]
    ELSE IF "gene_cn" \in DOMAIN region_data /\ region_data["gene_cn"] # JsonNull
    THEN region_data["gene_cn"]
    ELSE IF "highest_total_cn" \in DOMAIN region_data
            /\ region_data["highest_total_cn"] # JsonNull
    THEN region_data["highest_total_cn"]
    ELSE JStr("")

\* get_copy_number
GetCopyNumber(region_data) ==
    IF "gene_cn" \in DOMAIN region_data /\ region_data["gene_cn"] # JsonNull
    THEN region_data["gene_cn"]
    ELSE IF "total_cn" \in DOMAIN region_data /\ region_data["total_cn"] # JsonNull
    THEN region_data["total_cn"]
    ELSE IF "highest_total_cn" \in DOMAIN region_data
            /\ region_data["highest_total_cn"] # JsonNull
    THEN region_data["highest_total_cn"]
    ELSE JStr("")

\* get_special_info: the pair that is returned, or the exception
GetSpecialInfo(region, data, results) ==
    IF GenericRaises(data) THEN [raised |-> "TypeError"]
    ELSE [total_cn |-> GetCopyNumber(data),
          special_info |->
              StripChars(Join(AfterOverrides(region, GenericSpecialInfo(data), results),
                              <<";">>),
                         {",", " "})]

\* ParaphaseResults(Sample=sample, ..., F8_INV="", HAVANNO="") of
\* get_paraphase_results; a str that is empty and a dict that is empty are
\* both false in a condition and hold no region
ParaphaseResultsOf(sample) == [Sample |-> sample, F8_INV |-> <<>>, HAVANNO |-> EmptyMap]

\* ------------------------------------------------------------------------
\* make_table_entries

\* if region not in split_bams: continue
SkipsNoBam(region) == region \notin DOMAIN split_bams

\* what the try block yields: the interval, or an exception that the except
\* clause catches
RealignRegion(config, region) ==
    IF region \notin DOMAIN config THEN [raised |-> "KeyError"]
    ELSE IF "realign_region" \notin DOMAIN config[region] THEN [raised |-> "KeyError"]
    ELSE GenomicIntervalFromStr(config[region].realign_region)

\* except Exception: continue
SkipsNoConfig(config, region) == "raised" \in DOMAIN RealignRegion(config, region)

\* a bug: the difference is not clamped
Max_NoClamp(a, b) == b

\* max(a, b)
Max(a, b) == IF a >= b THEN a ELSE b

\* IGV_SESSIONS_PATH.format(sample) / <region>_igv.xml
IgvSessionPath(sample, region) == <<"data", sample, "igv_sessions", region, "_igv.xml">>

\* IMAGES_PATH.format(sample) / <sample>_<region>.png
ImagePath(sample, region) == <<"data", sample, "images", sample, region, ".png">>

PedigreeField(entry, field) == IF IsNone(entry) THEN "" ELSE ValueOf(entry)[field]

\* the RegionEntry that the loop body appends
TableEntry(sample, region, region_data, interval, bams, entry) ==
    [Chrom |-> interval.Chrom,
     Start |-> Max(0, interval.Start - REGION_PADDING),
     End |-> Max(0, interval.End + REGION_PADDING),
     Region |-> region,
     Sample |-> sample,
     BAM |-> bams.BAM,
     BAI |-> bams.BAI,
     CopyNumber |-> GetSpecialInfo(region, region_data, ParaphaseResultsOf(sample)).total_cn,
     SpecialInfo |-> GetSpecialInfo(region, region_data, ParaphaseResultsOf(sample)).special_info,
     Image |-> ImagePath(sample, region),
     IGVSession |-> IgvSessionPath(sample, region),
     FamilyID |-> PedigreeField(entry, "FamilyID"),
     PaternalID |-> PedigreeField(entry, "PaternalID"),
     MaternalID |-> PedigreeField(entry, "MaternalID"),
     Sex |-> PedigreeField(entry, "Sex"),
     Phenotype |-> PedigreeField(entry, "Phenotype")]

\* ------------------------------------------------------------------------
\* make_trio_table_entries and copy_trio_bams

\* trio.IndividualID + "-trio" on the names of the model
TrioSubject(id) ==
    CASE id = "s1" -> "s1-trio"
      [] id = "p1" -> "p1-trio"
      [] id = "m1" -> "m1-trio"

\* new_bam_pattern.format(sample, region) of copy_trio_bams:
\* data/<proband>-trio/bams/<sample>_<region>.bam
TrioBamPath(trio_entry, sample, region) ==
    <<"data", TrioSubject(trio_entry.IndividualID), "bams", sample, region, ".bam">>

\* a bug: the proband comes first
CopyOrder_ProbandFirst(trio_entry, sample_bam, paternal_bam, maternal_bam) ==
    <<[sample |-> trio_entry.IndividualID, bam |-> sample_bam],
      [sample |-> trio_entry.PaternalID, bam |-> paternal_bam],
      [sample |-> trio_entry.MaternalID, bam |-> maternal_bam]>>

\* the pairs that the for statement of copy_trio_bams visits
CopyOrder(trio_entry, sample_bam, paternal_bam, maternal_bam) ==
    <<[sample |-> trio_entry.PaternalID, bam |-> paternal_bam],
      [sample |-> trio_entry.MaternalID, bam |-> maternal_bam],
      [sample |-> trio_entry.IndividualID, bam |-> sample_bam]>>

\* shutil.copy(src, dst) on the files of the output directory: the files
\* afterwards and the exception, "none" when there is none
CopyFile(fs, src, dst) ==
    IF src \notin DOMAIN fs THEN [fs |-> fs, exc |-> "FileNotFoundError"]
    ELSE IF src = dst THEN [fs |-> fs, exc |-> "SameFileError"]
    ELSE [fs |-> Put(fs, dst, fs[src]), exc |-> "none"]

\* the for statement of copy_trio_bams from the pairs that are left
RECURSIVE CopyLoop(_, _, _, _)
CopyLoop(st, pairs, trio_entry, region) ==
    IF pairs = <<>> \/ st.exc # "none" THEN st
    ELSE LET bam == Head(pairs).bam
             new_target_bam == TrioBamPath(trio_entry, Head(pairs).sample, region)
             c1 == CopyFile(st.fs, bam, new_target_bam)
             c2 == IF c1.exc = "none"
                   THEN CopyFile(c1.fs, bam \o <<".bai">>, new_target_bam \o <<".bai">>)
                   ELSE c1
         IN  CopyLoop([fs |-> c2.fs, exc |-> c2.exc,
                       bams |-> IF c2.exc = "none" THEN Append(st.bams, new_target_bam)
                                ELSE st.bams],
                      Tail(pairs), trio_entry, region)

\* copy_trio_bams: the files afterwards, the list that is returned, the
\* exception
CopyTrioBams(fs, trio_entry, region, sample_bam, paternal_bam, maternal_bam) ==
    CopyLoop([fs |-> fs, exc |-> "none", bams |-> <<>>],
             CopyOrder(trio_entry, sample_bam, paternal_bam, maternal_bam),
             trio_entry, region)

\* the keys of a call-metadata document, and the record of a key
JsonKeysOf(calls) == {ValueOf(calls)[i].region : i \in DOMAIN ValueOf(calls)}

JsonGet(calls, region) ==
    ValueOf(calls)[CHOOSE i \in DOMAIN ValueOf(calls) : ValueOf(calls)[i].region = region].data

\* calls[region] for a parent: TypeError when unpack_json returned None,
\* KeyError when the document has no such key
SubscriptRaises(calls, region) ==
    IF IsNone(calls) THEN "TypeError"
    ELSE IF region \notin JsonKeysOf(calls) THEN "KeyError"
    ELSE "none"

\* the RegionEntry that the loop body of make_trio_table_entries appends
TrioEntry(trio_entry, region, proband_region_data, interval, bam_paths, results) ==
    [Chrom |-> interval.Chrom,
     Start |-> Max(0, interval.Start - REGION_PADDING),
     End |-> Max(0, interval.End + REGION_PADDING),
     Region |-> region,
     Sample |-> TrioSubject(trio_entry.IndividualID),
     BAM |-> bam_paths,
     BAI |-> [i \in DOMAIN bam_paths |-> bam_paths[i] \o <<".bai">>],
     CopyNumber |-> GetSpecialInfo(region, proband_region_data, results).total_cn,
     SpecialInfo |-> GetSpecialInfo(region, proband_region_data, results).special_info,
     Image |-> ImagePath(TrioSubject(trio_entry.IndividualID), region),
     IGVSession |-> IgvSessionPath(TrioSubject(trio_entry.IndividualID), region),
     FamilyID |-> trio_entry.FamilyID,
     PaternalID |-> trio_entry.PaternalID,
     MaternalID |-> trio_entry.MaternalID,
     Sex |-> trio_entry.Sex,
     Phenotype |-> trio_entry.Phenotype]

\* One iteration of "for region in proband_paraphase_json_calls": the rows,
\* the files and the exception afterwards.
TrioLoopBody(st, region, trio_entry, calls, split, config) ==
    IF SubscriptRaises(calls.paternal, region) # "none"
    THEN [st EXCEPT !.exc = SubscriptRaises(calls.paternal, region)]
    ELSE IF SubscriptRaises(calls.maternal, region) # "none"
    THEN [st EXCEPT !.exc = SubscriptRaises(calls.maternal, region)]
    ELSE IF \/ region \notin DOMAIN split[trio_entry.IndividualID]
            \/ region \notin DOMAIN split[trio_entry.MaternalID]
            \/ region \notin DOMAIN split[trio_entry.PaternalID]
    THEN st
    ELSE LET copied == CopyTrioBams(st.fs, trio_entry, region,
                                    split[trio_entry.IndividualID][region].BAM,
                                    split[trio_entry.PaternalID][region].BAM,
                                    split[trio_entry.MaternalID][region].BAM)
             results == ParaphaseResultsOf(trio_entry.IndividualID)
             data == JsonGet(calls.proband, region)
         IN  IF copied.exc # "none" THEN [st EXCEPT !.fs = copied.fs, !.exc = copied.exc]
             ELSE IF SkipsNoConfig(config, region) THEN [st EXCEPT !.fs = copied.fs]
             ELSE IF "raised" \in DOMAIN GetSpecialInfo(region, data, results)
             THEN [st EXCEPT !.fs = copied.fs, !.exc = "TypeError"]
             ELSE [st EXCEPT !.fs = copied.fs,
                             !.entries = Append(st.entries,
                                    TrioEntry(trio_entry, region, data,
                                              RealignRegion(config, region),
                                              copied.bams, results))]

\* the test that opens make_trio_table_entries: return []
TrioMemberMissing(trio_entry, split) ==
    \/ trio_entry.IndividualID \notin DOMAIN split
    \/ trio_entry.PaternalID \notin DOMAIN split
    \/ trio_entry.MaternalID \notin DOMAIN split

\* sample_entries after the loop body has run for one key
EntriesAfter(entries, item) ==
    IF SkipsNoBam(item.region) THEN entries
    ELSE IF SkipsNoConfig(paraphase_config, item.region) THEN entries
    ELSE Append(entries,
                TableEntry(sample_paraphase_results.Sample, item.region, item.data,
                           RealignRegion(paraphase_config, item.region),
                           split_bams[item.region], pedigree_entry))

InitTable ==
    /\ SplitIdle
    /\ PedigreeIdle
    /\ ImagesIdle
    /\ MainIdle
    /\ RunIdle
    /\ InfoIdle
    /\ TrioIdle
    /\ tpc = "start"
    /\ paraphase_json_calls \in JsonCalls(MaxJsonKeys)
    /\ \E D \in SUBSET TableRegions :
            split_bams = [r \in D |-> RegionBamPaths(SampleName, r)]
    /\ paraphase_config \in Configs
    /\ pedigree_entry \in PedigreeEntries
    /\ sample_paraphase_results = ParaphaseResultsOf(SampleName)
    /\ region_i = 0
    /\ sample_entries = <<>>

\* paraphase_json_calls = unpack_json(...); sample_entries = []; the for
\* statement takes the iterator of the mapping
TableStart ==
    /\ UNCHANGED notTableVars
    /\ tpc = "start"
    /\ tpc' = IF IsNone(paraphase_json_calls) THEN "raised" ELSE "loop"
    /\ UNCHANGED <<paraphase_json_calls, split_bams, paraphase_config,
                   pedigree_entry, sample_paraphase_results, region_i, sample_entries>>

\* one iteration of "for region in paraphase_json_calls"
TableRegion ==
    /\ UNCHANGED notTableVars
    /\ tpc = "loop"
    /\ region_i < Len(ValueOf(paraphase_json_calls))
    /\ region_i' = region_i + 1
    /\ sample_entries' =
            EntriesAfter(sample_entries, ValueOf(paraphase_json_calls)[region_i + 1])
    /\ UNCHANGED <<tpc, paraphase_json_calls, split_bams, paraphase_config,
                   pedigree_entry, sample_paraphase_results>>

\* return sample_entries
TableReturn ==
    /\ UNCHANGED notTableVars
    /\ tpc = "loop"
    /\ region_i = Len(ValueOf(paraphase_json_calls))
    /\ tpc' = "returned"
    /\ UNCHANGED <<paraphase_json_calls, split_bams, paraphase_config,
                   pedigree_entry, sample_paraphase_results, region_i, sample_entries>>

NextTable ==
    \/ TableStart
    \/ TableRegion
    \/ TableReturn

SpecTable == InitTable /\ [][NextTable]_vars

\* ------------------------------------------------------------------------
\* Properties of make_table_entries

\* the coordinate strings of the form chrom:start-end, digit grouping allowed
WellFormedCoords == {Coord_Plain, Coord_Grouped}

JsonKeys == {ValueOf(paraphase_json_calls)[i].region : i \in DOMAIN ValueOf(paraphase_json_calls)}

\* the regions of the call-metadata that are in the partition map and have a
\* well-formed coordinate entry in the configuration
RowRegions ==
    {r \in JsonKeys \cap DOMAIN split_bams :
        /\ r \in DOMAIN paraphase_config
        /\ "realign_region" \in DOMAIN paraphase_config[r]
        /\ paraphase_config[r].realign_region \in WellFormedCoords}

RowsOf(r) == {i \in DOMAIN sample_entries : sample_entries[i].Region = r}

\* C10: make_table_entries returns one row for each region that is a key of
\* the call-metadata and of the partition map and has a well-formed
\* coordinate entry, and no other row; a region without such an entry is
\* skipped and nothing is raised for it.
C10_OneRowPerRegion ==
    /\ tpc = "returned" =>
        /\ \A r \in RowRegions : Cardinality(RowsOf(r)) = 1
        /\ \A i \in DOMAIN sample_entries : sample_entries[i].Region \in RowRegions
    /\ tpc = "raised" => IsNone(paraphase_json_calls)

C10_Witness ==
    /\ tpc = "returned"
    /\ \E i \in DOMAIN sample_entries :
            paraphase_config[sample_entries[i].Region].realign_region = Coord_Grouped
    /\ \E r \in (JsonKeys \cap DOMAIN split_bams) \ RowRegions : r \in DOMAIN paraphase_config
    /\ \E r \in DOMAIN split_bams : r \notin JsonKeys

\* ------------------------------------------------------------------------
\* make_trio_table_entries: inputs

\* the family linkage records: the father may bear the name of the subject
\* of the family
Trios ==
    {[FamilyID |-> "fam1", IndividualID |-> "s1", PaternalID |-> p,
      MaternalID |-> "m1", Sex |-> "Male", Phenotype |-> "2"] : p \in {"p1", "s1-trio"}}

\* the partition map of a member: None when the member has none
MemberMaps(sample) ==
    {None}
    \cup {Some([r \in D |-> RegionBamPaths(sample, r)]) : D \in {TableRegions, {"smn1"}}}

\* all_split_bams from the maps of the three members
AllSplitBams(trio_entry, proband, paternal, maternal) ==
    LET maps == <<[id |-> trio_entry.IndividualID, map |-> proband],
                  [id |-> trio_entry.PaternalID, map |-> paternal],
                  [id |-> trio_entry.MaternalID, map |-> maternal]>>
        ids == {maps[i].id : i \in {j \in 1..3 : ~IsNone(maps[j].map)}}
    IN  [id \in ids |-> ValueOf(maps[CHOOSE i \in 1..3 : maps[i].id = id].map)]

\* the call-metadata of a parent: none, every region, one region
ParentJsonCalls ==
    {None,
     Some(<<[region |-> "smn1", data |-> CallData("smn1")],
            [region |-> "f8", data |-> CallData("f8")],
            [region |-> "hba", data |-> CallData("hba")]>>),
     Some(<<[region |-> "smn1", data |-> CallData("smn1")]>>)}

TrioConfigs ==
    {[r \in TableRegions |-> [realign_region |-> IF r = "smn1" THEN Coord_Plain ELSE Coord_Grouped]],
     [r \in {"smn1"} |-> [realign_region |-> Coord_Grouped]],
     [r \in {"smn1", "hba"} |->
        [realign_region |-> IF r = "smn1" THEN Coord_NotNumeric ELSE Coord_Plain]]}

\* what split_bam and pysam.index left in the output directory: the data
\* file and the index file of every region of every member
SliceFiles(split) ==
    LET slices == {[sample |-> s, region |-> r] : s \in DOMAIN split, r \in TableRegions}
        made == {x \in slices : x.region \in DOMAIN split[x.sample]}
        paths == {split[x.sample][x.region].BAM : x \in made}
                 \cup {split[x.sample][x.region].BAI : x \in made}
    IN  [p \in paths |->
            LET x == CHOOSE y \in made : p \in {split[y.sample][y.region].BAM,
                                                 split[y.sample][y.region].BAI}
            IN  [sample |-> x.sample, region |-> x.region,
                 kind |-> IF p = split[x.sample][x.region].BAM THEN "bam" ELSE "bai"]]

\* ------------------------------------------------------------------------
\* make_trio_table_entries, one loop iteration per step

InitTrio ==
    /\ SplitIdle
    /\ PedigreeIdle
    /\ ImagesIdle
    /\ MainIdle
    /\ RunIdle
    /\ TableIdle
    /\ InfoIdle
    /\ trpc = "start"
    /\ trio \in Trios
    /\ \E proband \in MemberMaps(trio.IndividualID),
          paternal \in MemberMaps(trio.PaternalID),
          maternal \in MemberMaps(trio.MaternalID) :
            all_split_bams = AllSplitBams(trio, proband, paternal, maternal)
    /\ trio_json_calls \in [proband : JsonCalls(MaxJsonKeys),
                            paternal : ParentJsonCalls,
                            maternal : ParentJsonCalls]
    /\ trio_config \in TrioConfigs
    /\ trio_i = 0
    /\ trio_entries = <<>>
    /\ outdir_files = SliceFiles(all_split_bams)
    /\ trio_exc = "none"

\* the first test, the three calls of unpack_json, trio_entries = [], and
\* the for statement takes the iterator of the proband's mapping
TrioStart ==
    /\ UNCHANGED notTrioVars
    /\ trpc = "start"
    /\ IF TrioMemberMissing(trio, all_split_bams)
       THEN trpc' = "returned" /\ trio_exc' = trio_exc
       ELSE IF IsNone(trio_json_calls.proband)
       THEN trpc' = "raised" /\ trio_exc' = "TypeError"
       ELSE trpc' = "loop" /\ trio_exc' = trio_exc
    /\ UNCHANGED <<trio, all_split_bams, trio_json_calls, trio_config, trio_i,
                   trio_entries, outdir_files>>

\* one iteration of "for region in proband_paraphase_json_calls"
TrioRegion ==
    /\ UNCHANGED notTrioVars
    /\ trpc = "loop"
    /\ trio_i < Len(ValueOf(trio_json_calls.proband))
    /\ LET after == TrioLoopBody([entries |-> trio_entries, fs |-> outdir_files,
                                  exc |-> "none"],
                                 ValueOf(trio_json_calls.proband)[trio_i + 1].region,
                                 trio, trio_json_calls, all_split_bams, trio_config)
       IN  /\ trio_entries' = after.entries
           /\ outdir_files' = after.fs
           /\ trio_exc' = after.exc
           /\ trpc' = IF after.exc = "none" THEN "loop" ELSE "raised"
    /\ trio_i' = trio_i + 1
    /\ UNCHANGED <<trio, all_split_bams, trio_json_calls, trio_config>>

\* return trio_entries
TrioReturn ==
    /\ UNCHANGED notTrioVars
    /\ trpc = "loop"
    /\ trio_i = Len(ValueOf(trio_json_calls.proband))
    /\ trpc' = "returned"
    /\ UNCHANGED <<trio, all_split_bams, trio_json_calls, trio_config, trio_i,
                   trio_entries, outdir_files, trio_exc>>

\* ------------------------------------------------------------------------
\* The Record Aggregator: one call of make_table_entries or one call of
\* make_trio_table_entries

InitRows == InitTable \/ InitTrio

NextRows ==
    \/ TableStart
    \/ TableRegion
    \/ TableReturn
    \/ TrioStart
    \/ TrioRegion
    \/ TrioReturn

SpecRows == InitRows /\ [][NextRows]_vars

\* ------------------------------------------------------------------------
\* Properties of the rows of individuals and of trios

\* the interval that a coordinate string of the form chrom:start-end names
NamedInterval(coord) ==
    CASE coord = Coord_Plain -> [Start |-> 5, End |-> 9]
      [] coord = Coord_Grouped -> [Start |-> 2000, End |-> 3500]

PaddedBy1000(row, config) ==
    LET named == NamedInterval(config[row.Region].realign_region)
    IN  /\ row.Start = IF named.Start >= 1000 THEN named.Start - 1000 ELSE 0
        /\ row.End = named.End + 1000
        /\ row.Start >= 0
        /\ row.End >= 0
        /\ named.Start - row.Start # 1000 => row.Start = 0

\* C12: every row of an individual and every row of a trio has Start =
\* max(0, start - 1000) and End = end + 1000 for the interval
\* chrom:start-end of its region; both are at least 0, and the padding is
\* 1000 unless the start is clamped at 0.
C12_CoordinatePadding ==
    /\ \A i \in DOMAIN sample_entries : PaddedBy1000(sample_entries[i], paraphase_config)
    /\ \A i \in DOMAIN trio_entries : PaddedBy1000(trio_entries[i], trio_config)

C12_Witness ==
    /\ trpc = "returned"
    /\ \E i, j \in DOMAIN trio_entries :
        /\ trio_entries[i].Start = 0
        /\ trio_entries[i].End = 1009
        /\ trio_entries[j].Start = 1000
        /\ trio_entries[j].End = 4500

\* the three call-metadata documents exist
TrioDocumentsPresent ==
    /\ ~IsNone(trio_json_calls.proband)
    /\ ~IsNone(trio_json_calls.paternal)
    /\ ~IsNone(trio_json_calls.maternal)

\* the regions of the proband's call-metadata that are in the partition
\* maps of the three members and have a well-formed coordinate entry
TrioRowRegions ==
    {r \in JsonKeysOf(trio_json_calls.proband) :
        /\ \A id \in {trio.IndividualID, trio.PaternalID, trio.MaternalID} :
                id \in DOMAIN all_split_bams /\ r \in DOMAIN all_split_bams[id]
        /\ r \in DOMAIN trio_config
        /\ "realign_region" \in DOMAIN trio_config[r]
        /\ trio_config[r].realign_region \in WellFormedCoords}

TrioRowsOf(r) == {i \in DOMAIN trio_entries : trio_entries[i].Region = r}

\* C18: when the three call-metadata documents exist,
\* make_trio_table_entries raises nothing and returns one row for each
\* region of the proband's call-metadata that is in the three partition
\* maps and has a coordinate entry, and no other row; the copy number of a
\* row is that of the proband's record.
C18_TrioRegionSet ==
    (/\ trpc # "idle"
     /\ TrioDocumentsPresent
     /\ trio.PaternalID # TrioSubject(trio.IndividualID)) =>
        /\ trpc # "raised"
        /\ trpc = "returned" =>
            /\ \A r \in TrioRowRegions : Cardinality(TrioRowsOf(r)) = 1
            /\ \A i \in DOMAIN trio_entries :
                /\ trio_entries[i].Region \in TrioRowRegions
                /\ trio_entries[i].CopyNumber =
                        GetCopyNumber(JsonGet(trio_json_calls.proband, trio_entries[i].Region))

\* the copy of the slice of a member inside the directory of the family
FamilyCopy(sample, region) == <<"data", "s1-trio", "bams", sample, region, ".bam">>

IsCopyOf(path, sample, region, kind) ==
    /\ path \in DOMAIN outdir_files
    /\ outdir_files[path] = [sample |-> sample, region |-> region, kind |-> kind]

\* C19: a trio row has three alignment paths and three index paths, for
\* the father, the mother and the proband in that order, each the copy of
\* the member's slice of the row's region in data/<proband>-trio/bams; the
\* slices and indexes of the three individuals stay as split_bam left them.
C19_TrioAlignmentPaths ==
    /\ \A i \in DOMAIN trio_entries :
        LET row == trio_entries[i]
            members == <<trio.PaternalID, trio.MaternalID, trio.IndividualID>>
        IN  /\ row.BAM = [m \in 1..3 |-> FamilyCopy(members[m], row.Region)]
            /\ row.BAI = [m \in 1..3 |-> FamilyCopy(members[m], row.Region) \o <<".bai">>]
            /\ \A m \in 1..3 :
                /\ IsCopyOf(row.BAM[m], members[m], row.Region, "bam")
                /\ IsCopyOf(row.BAI[m], members[m], row.Region, "bai")
    /\ \A p \in DOMAIN SliceFiles(all_split_bams) :
        /\ p \in DOMAIN outdir_files
        /\ outdir_files[p] = SliceFiles(all_split_bams)[p]

C19_Witness ==
    /\ trpc = "returned"
    /\ Len(trio_entries) = 2
    /\ trio_entries[1].BAM[1] = <<"data", "s1-trio", "bams", "p1", trio_entries[1].Region, ".bam">>
    /\ Cardinality(DOMAIN outdir_files) > Cardinality(DOMAIN SliceFiles(all_split_bams))

\* ------------------------------------------------------------------------
\* get_special_info: inputs

\* the region identifiers of the calls
InfoRegions == {"SMN1", "hba", "F8", "exf8b"}

CopyNumberKeys == {"gene_cn", "total_cn", "highest_total_cn"}

\* the value of a copy-number field that is not null; 0 is false in a
\* condition and is not None
CopyNumberValue(key) ==
    CASE key = "gene_cn" -> JInt(0)
      [] key = "total_cn" -> JInt(5)
      [] key = "highest_total_cn" -> JInt(6)

\* the records with the copy-number fields: each one absent, null or set
CopyNumberRecords ==
    UNION {{d \in [D -> {JsonNull} \cup {CopyNumberValue(k) : k \in D}] :
                \A k \in D : d[k] \in {JsonNull, CopyNumberValue(k)}} :
           D \in SUBSET CopyNumberKeys}

\* field names of the allow list, and one that is not in it
SpecialKeys == {"smn1_cn", "smn2_cn", "genotype", "alleles_final", "not_listed"}

SpecialValues ==
    {JsonNull, JStr("NA"), JInt(2), JInt(3),
     JList(<<>>), JList(<<JStr("a"), JList(<<JStr("b"), JStr("c")>>)>>),
     JList(<<JInt(1)>>),
     JDict(<<>>), JDict(<<"k1", "k2">>)}

\* the records with at most maxKeys of the special keys
SpecialRecords(maxKeys) ==
    UNION {[D -> SpecialValues] :
           D \in {E \in SUBSET SpecialKeys : Cardinality(E) <= maxKeys}}

\* the documents <sample>.f8inversion.json: None when unpack_json finds none
F8InvInfos ==
    {None,
     Some([f8inv1 |-> [has_inversion |-> FALSE, inversion_genotype |-> "none"],
           f8inv22 |-> [has_inversion |-> FALSE, inversion_genotype |-> "none"]]),
     Some([f8inv1 |-> [has_inversion |-> TRUE, inversion_genotype |-> "het"],
           f8inv22 |-> [has_inversion |-> FALSE, inversion_genotype |-> "none"]]),
     Some([f8inv1 |-> [has_inversion |-> TRUE, inversion_genotype |-> "het"],
           f8inv22 |-> [has_inversion |-> TRUE, inversion_genotype |-> "hom"]])}

\* what get_havanno_annotations returns: per region, the text of its
\* haplotypes
Havannos ==
    {EmptyMap,
     [r \in {"hba", "F8"} |-> <<"hap1", ",", "3bp INS">>]}

\* get_f8_inv_annotation
F8InvAnnotation(f8_inv_info) ==
    IF IsNone(f8_inv_info) THEN <<>>
    ELSE (IF ValueOf(f8_inv_info).f8inv1.has_inversion
          THEN <<ValueOf(f8_inv_info).f8inv1.inversion_genotype, ",">> ELSE <<>>)
         \o (IF ValueOf(f8_inv_info).f8inv22.has_inversion
             THEN <<ValueOf(f8_inv_info).f8inv22.inversion_genotype, ",">> ELSE <<>>)

\* ------------------------------------------------------------------------
\* get_special_info: one call, for a sample of a paraphase directory or of
\* a puretarget directory

InitInfo ==
    /\ SplitIdle
    /\ PedigreeIdle
    /\ ImagesIdle
    /\ MainIdle
    /\ RunIdle
    /\ TableIdle
    /\ TrioIdle
    /\ ipc = "start"
    /\ info_region \in InfoRegions
    /\ info_data \in CopyNumberRecords \cup SpecialRecords(MaxSpecialKeys)
    /\ info_results = ParaphaseResultsOf(SampleName)
    /\ info_return = None

\* get_puretarget_results: sample_results[sample]._replace(F8_INV=...),
\* _replace(HAVANNO=...)
PuretargetAnnotate(f8_inv_info, havanno) ==
    /\ UNCHANGED notInfoVars
    /\ ipc = "start"
    /\ ipc' = "annotated"
    /\ info_results' = [info_results EXCEPT !.F8_INV = F8InvAnnotation(f8_inv_info),
                                            !.HAVANNO = havanno]
    /\ UNCHANGED <<info_region, info_data, info_return>>

\* get_special_info(region_name, region_data, paraphase_results)
GetSpecialInfoCall ==
    /\ UNCHANGED notInfoVars
    /\ ipc \in {"start", "annotated"}
    /\ info_return' = Some(GetSpecialInfo(info_region, info_data, info_results))
    /\ ipc' = IF "raised" \in DOMAIN GetSpecialInfo(info_region, info_data, info_results)
              THEN "raised" ELSE "returned"
    /\ UNCHANGED <<info_region, info_data, info_results>>

NextInfo ==
    \/ \E f8_inv_info \in F8InvInfos, havanno \in Havannos :
            PuretargetAnnotate(f8_inv_info, havanno)
    \/ GetSpecialInfoCall

SpecInfo == InitInfo /\ [][NextInfo]_vars

\* ------------------------------------------------------------------------
\* Properties of get_copy_number and get_special_info

\* the field is in the record and is not null
IsSet(key) == key \in DOMAIN info_data /\ info_data[key] # JsonNull

Returned_total_cn == ValueOf(info_return).total_cn

Returned_special_info == ValueOf(info_return).special_info

\* C13: the copy number is gene_cn when it is set, else total_cn when it
\* is set, else highest_total_cn when it is set, else the empty string;
\* no combination of absent, null and set fields raises.
C13_CopyNumberFallback ==
    /\ ipc = "returned" =>
        /\ IsSet("gene_cn") => Returned_total_cn = info_data["gene_cn"]
        /\ (~IsSet("gene_cn") /\ IsSet("total_cn")) =>
                Returned_total_cn = info_data["total_cn"]
        /\ (~IsSet("gene_cn") /\ ~IsSet("total_cn") /\ IsSet("highest_total_cn")) =>
                Returned_total_cn = info_data["highest_total_cn"]
        /\ (~IsSet("gene_cn") /\ ~IsSet("total_cn") /\ ~IsSet("highest_total_cn")) =>
                Returned_total_cn = JStr("")
    /\ DOMAIN info_data \subseteq CopyNumberKeys => ipc # "raised"

C13_Witness ==
    /\ ipc = "returned"
    /\ info_data = [gene_cn |-> JsonNull, total_cn |-> JsonNull,
                    highest_total_cn |-> JInt(6)]
    /\ Returned_total_cn = JInt(6)

\* the region identifiers that contain "f8", whatever the case
F8Regions == {"F8", "exf8b"}

\* C14: for a region whose identifier contains "f8", the special-info is
\* the inversion call of the sample (its genotypes, separated by commas)
\* and nothing else; it is empty when there is no inversion call.
C14_InversionOverride ==
    (ipc = "returned" /\ info_region \in F8Regions) =>
        /\ info_results.F8_INV = <<>> => Returned_special_info = <<>>
        /\ info_results.F8_INV # <<>> =>
                Returned_special_info \o <<",">> = info_results.F8_INV

C14_Witness ==
    /\ ipc = "returned"
    /\ info_region = "F8"
    /\ \E k \in DOMAIN info_data : k # "not_listed" /\ info_data[k] = JInt(2)
    /\ info_region \in DOMAIN info_results.HAVANNO
    /\ Returned_special_info = <<"het", ",", "hom">>

\* the special-info that the specification gives to a region that is not
\* f8: the generic fields, then the text of the annotation source
SpecifiedSpecialInfo ==
    StripChars(Join(IF info_region \in DOMAIN info_results.HAVANNO
                    THEN Append(GenericSpecialInfo(info_data),
                                info_results.HAVANNO[info_region])
                    ELSE GenericSpecialInfo(info_data),
                    <<";">>),
               {",", " "})

\* C15: for a region whose identifier does not contain "f8", the text of
\* the annotation source is appended to the generic special-info, and the
\* inversion call of the sample is no part of the special-info.
C15_AnnotationAppend ==
    (ipc = "returned" /\ info_region \notin F8Regions) =>
        Returned_special_info = SpecifiedSpecialInfo

\* the field names of the allow list among the special keys
AllowListed == {"smn1_cn", "smn2_cn", "genotype", "alleles_final"}

\* the values that contribute nothing
IsBlank(v) == v \in {JsonNull, JStr("NA"), JList(<<>>), JDict(<<>>)}

\* the positions of a field name in the special-info
PositionsOf(key) ==
    {i \in DOMAIN Returned_special_info : Returned_special_info[i] = key}

\* C16: without annotations, the special-info of a region that is not f8
\* names the allow-listed fields that are present and not null, "NA", an
\* empty list or an empty map, once each and no other field; a number
\* renders as name,value; the fields are separated by semicolons and their
\* names ascend alphabetically.  {smn1_cn: 2, smn2_cn: 3} for SMN1 gives
\* the copy number "" and the special-info smn1_cn,2;smn2_cn,3.
C16_GenericSpecialInfo ==
    (/\ ipc = "returned"
     /\ info_region \notin F8Regions
     /\ info_results.F8_INV = <<>>
     /\ info_region \notin DOMAIN info_results.HAVANNO) =>
        /\ \A k \in SpecialKeys :
                Cardinality(PositionsOf(k)) =
                    IF k \in AllowListed /\ k \in DOMAIN info_data /\ ~IsBlank(info_data[k])
                    THEN 1 ELSE 0
        /\ \A k \in SpecialKeys : \A i \in PositionsOf(k) :
                info_data[k].type = "int" =>
                    SubSeq(Returned_special_info, i, i + 2)
                        = <<k, ",", Digits[info_data[k].val + 1]>>
        /\ \A k1, k2 \in SpecialKeys : \A i \in PositionsOf(k1), j \in PositionsOf(k2) :
                i < j => /\ NameLess(k1, k2)
                         /\ \E s \in (i + 1)..(j - 1) : Returned_special_info[s] = ";"
        /\ Cardinality(PositionsOf(";")) + 1
                = Cardinality({k \in SpecialKeys : PositionsOf(k) # {}})
           \/ Returned_special_info = <<>>
        /\ (info_region = "SMN1" /\ info_data = [smn1_cn |-> JInt(2), smn2_cn |-> JInt(3)]) =>
                /\ Returned_total_cn = JStr("")
                /\ Returned_special_info = <<"smn1_cn", ",", "2", ";", "smn2_cn", ",", "3">>

C16_Witness ==
    /\ ipc = "returned"
    /\ info_region = "SMN1"
    /\ info_data = [smn1_cn |-> JInt(2), smn2_cn |-> JInt(3)]
    /\ info_results.F8_INV = <<>>
    /\ info_results.HAVANNO = EmptyMap
    /\ Returned_special_info = <<"smn1_cn", ",", "2", ";", "smn2_cn", ",", "3">>

\* ------------------------------------------------------------------------
\* paraviewer(): inputs

\* the samples that a paraphase directory may hold
RunSamples == {"s1", "p1", "m1"}

\* a PedigreeEntry as read_pedigree_file builds it: "0" for a parent is ""
Founder(id) ==
    [FamilyID |-> "fam1", IndividualID |-> id, PaternalID |-> "", MaternalID |-> "",
     Sex |-> "Unknown", Phenotype |-> "1"]

Child ==
    [FamilyID |-> "fam1", IndividualID |-> "s1", PaternalID |-> "p1",
     MaternalID |-> "m1", Sex |-> "Male", Phenotype |-> "2"]

\* pedigree_dict: no pedigree file, the three members, the child alone,
\* the parents alone
PedigreeDicts ==
    {EmptyMap,
     [id \in RunSamples |-> IF id = "s1" THEN Child ELSE Founder(id)],
     [id \in {"s1"} |-> Child],
     [id \in {"p1", "m1"} |-> Founder(id)]}

\* the order in which "for sample in pedigree_dict" visits the keys
PedigreeOrder == <<"s1", "p1", "m1">>

Coord_Chr5 == <<"c", "h", "r", "5", ":", "5", "-", "9">>

Coord_Chr16 ==
    <<"c", "h", "r", "1", "6", ":", "2", ",", "0", "0", "0", "-", "3", ",", "5", "0", "0">>

\* get_config(...): the regions of the report, or a configuration that
\* knows none of them
RunConfigs ==
    {[r \in {"smn1", "hba"} |->
        [realign_region |-> IF r = "smn1" THEN Coord_Chr5 ELSE Coord_Chr16]],
     EmptyMap}

FullDocument ==
    Some(<<[region |-> "smn1", data |-> CallData("smn1")],
           [region |-> "hba", data |-> CallData("hba")]>>)

\* the call-metadata of the samples: all alike; the father's without hba;
\* the proband's unreadable
RunDocuments ==
    {[s \in RunSamples |-> FullDocument],
     [s \in RunSamples |->
        IF s = "p1" THEN Some(<<[region |-> "smn1", data |-> CallData("smn1")]>>)
        ELSE FullDocument],
     [s \in RunSamples |-> IF s = "s1" THEN None ELSE FullDocument]}

\* the regions of the map that split_bam returns for a sample
RunRegionSets == {{}, {"smn1"}, {"hba"}, {"smn1", "hba"}}

\* the orders of the elements of a set
RECURSIVE Orders(_)
Orders(S) ==
    IF S = {} THEN {<<>>}
    ELSE UNION {{<<x>> \o q : q \in Orders(S \ {x})} : x \in S}

Range(q) == {q[i] : i \in DOMAIN q}

\* ------------------------------------------------------------------------
\* paraviewer()

\* get_paraphase_results: the samples of the directory that pass
\* "if len(pedigree_dict) > 0 and sample not in pedigree_dict: continue"
Discovered(dir, pedigree) ==
    {s \in dir : DOMAIN pedigree # {} => s \in DOMAIN pedigree}

\* get_trio_samples: the entries of the dict that is returned, in its order
GetTrioSamples(pedigree, results) ==
    LET isTrio(sample) ==
            /\ sample \in DOMAIN pedigree
            /\ sample \in results
            /\ pedigree[sample].PaternalID \in results
            /\ pedigree[sample].MaternalID \in results
        names == SelectSeq(PedigreeOrder, isTrio)
    IN  [i \in DOMAIN names |-> pedigree[names[i]]]

\* pedigree_dict.get(sample)
PedigreeGet(pedigree, sample) ==
    IF sample \in DOMAIN pedigree THEN Some(pedigree[sample]) ELSE None

\* session_fields.Chrom.strip("chr") in valid_chromosomes
ValidChromosomes == {IntText(n) : n \in 1..22} \cup {<<"X">>, <<"Y">>}

ValidChrom(chrom) == StripChars(chrom, {"c", "h", "r"}) \in ValidChromosomes

\* what ends generate_igv_sessions and generate_igv_images for the rows of
\* a subject: sys.exit(1) for an invalid session or for no batch entry,
\* "none" otherwise
IgvExit(entries, no_igv_rerun) ==
    IF \E i \in DOMAIN entries : ~ValidChrom(entries[i].Chrom) THEN "invalid_session"
    ELSE IF ~no_igv_rerun /\ entries = <<>> THEN "no_igv_entries"
    ELSE "none"

\* the files of the output directory with those of one more sample
WithSlices(fs, sample, split) ==
    LET new == SliceFiles([s \in {sample} |-> split])
    IN  [p \in DOMAIN fs \cup DOMAIN new |-> IF p \in DOMAIN new THEN new[p] ELSE fs[p]]

TableLocals ==
    <<tpc, paraphase_json_calls, split_bams, paraphase_config, pedigree_entry,
      sample_paraphase_results, region_i, sample_entries>>

TrioLocals ==
    <<trpc, trio, trio_json_calls, trio_config, trio_i, trio_entries, trio_exc>>

RunInputs == <<args, pedigree_dict, paraphase_dir, run_documents, run_config>>

\* Output directories of a run: the file system root, the home directory
\* of the user and a directory of the user's own
RootDir == <<"/">>

HomeDir == <<"/", "home", "user">>

OutputDirs == {RootDir, HomeDir, <<"/", "home", "user", "out">>}

\* Python values of the two types that the first test of make_output_dirs
\* compares, and their comparison with ==: a path is equal to a path with
\* the same parts, and a module is equal to itself only
OsPathModule == [type |-> "module", name |-> "posixpath"]

PathObject(parts) == [type |-> "PosixPath", name |-> parts]

PyEq(a, b) == a.type = b.type /\ a.name = b.name

InitRun ==
    /\ SplitIdle
    /\ PedigreeIdle
    /\ ImagesIdle
    /\ MainIdle
    /\ TableIdle
    /\ InfoIdle
    /\ TrioIdle
    /\ rpc = "start"
    /\ args \in [clobber : BOOLEAN, no_igv_rerun : BOOLEAN, outdir : OutputDirs]
    /\ pedigree_dict \in PedigreeDicts
    /\ paraphase_dir \in SUBSET RunSamples
    /\ run_documents \in RunDocuments
    /\ run_config \in RunConfigs
    /\ data_dir_exists \in BOOLEAN
    /\ all_paraphase_results = <<>>
    /\ trio_samples = <<>>
    /\ run_i = 0
    /\ all_region_entries = <<>>
    /\ run_exit = "none"
    /\ run_log = <<>>
    /\ table_data = None

\* the key of table_data.sort: (x["Chrom"], x["Start"], x["End"]), tuples
\* being compared item by item and str by code point
SortKeyLess(a, b) ==
    \/ StrLess(a.Chrom, b.Chrom)
    \/ a.Chrom = b.Chrom /\ a.Start < b.Start
    \/ a.Chrom = b.Chrom /\ a.Start = b.Start /\ a.End < b.End

\* list.sort is stable: an item goes behind the items that are not greater
RECURSIVE InsertStable(_, _)
InsertStable(sorted, item) ==
    IF sorted = <<>> THEN <<item>>
    ELSE IF SortKeyLess(item, Head(sorted)) THEN <<item>> \o sorted
    ELSE <<Head(sorted)>> \o InsertStable(Tail(sorted), item)

RECURSIVE StableSort(_)
StableSort(items) ==
    IF items = <<>> THEN <<>>
    ELSE InsertStable(StableSort(SubSeq(items, 1, Len(items) - 1)), items[Len(items)])

\* a bug: the rows are handed to the page as they were collected
GenerateTable_Unsorted(entries) == entries

\* generate_table(sample_entries)["table_data"]
GenerateTable(entries) == StableSort(entries)

\* a bug: the trios come before the individuals
RunSubjects_TriosFirst ==
    [i \in DOMAIN trio_samples |->
        [kind |-> "trio", name |-> TrioSubject(trio_samples[i].IndividualID),
         entry |-> Some(trio_samples[i])]]
    \o [i \in DOMAIN all_paraphase_results |->
        [kind |-> "individual", name |-> all_paraphase_results[i], entry |-> None]]

\* list(all_paraphase_results.keys()) + list(trio_samples.keys()), and
\* "if i < len(all_paraphase_results)": the subjects of the for statement
RunSubjects ==
    [i \in DOMAIN all_paraphase_results |->
        [kind |-> "individual", name |-> all_paraphase_results[i], entry |-> None]]
    \o [i \in DOMAIN trio_samples |->
        [kind |-> "trio", name |-> TrioSubject(trio_samples[i].IndividualID),
         entry |-> Some(trio_samples[i])]]

Logged(op, subject) == [op |-> op, subject |-> subject]

\* paraviewer up to the for statement.  glob gives the files of the
\* directory in any order; get_paraphase_results returns None for a
\* directory without call-metadata, and len(None) raises TypeError.
RunStart ==
    /\ UNCHANGED <<splitVars, tableVars, infoVars, trioVars, mainVars, imageVars, pedVars>>
    /\ rpc = "start"
    /\ IF paraphase_dir = {}
       THEN /\ rpc' = "raised"
            /\ run_exit' = "TypeError"
            /\ UNCHANGED <<all_paraphase_results, trio_samples>>
       ELSE \E order \in Orders(Discovered(paraphase_dir, pedigree_dict)) :
            /\ all_paraphase_results' = order
            /\ trio_samples' = GetTrioSamples(pedigree_dict, Range(order))
            /\ rpc' = IF order = <<>> THEN "exit" ELSE "loop"
            /\ run_exit' = IF order = <<>> THEN "no_results" ELSE "none"
    /\ UNCHANGED <<RunInputs, run_i, all_region_entries, data_dir_exists, run_log,
                   table_data>>

\* The tests of make_output_dirs before it creates a directory. The first
\* test compares the name 'path', which the module binds to os.path, with
\* the two paths; the argument outdir is not part of it.
MakeOutputDirsExit ==
    IF PyEq(OsPathModule, PathObject(RootDir)) \/ PyEq(OsPathModule, PathObject(HomeDir))
    THEN "unsafe_outdir"
    ELSE IF data_dir_exists /\ ~args.clobber
    THEN "data_dir_exists"
    ELSE "none"

\* process_individual_sample up to the call of make_table_entries:
\* make_output_dirs, split_bam and the test of its result
ProcessIndividualCall(regions) ==
    /\ UNCHANGED <<splitVars, infoVars, mainVars, imageVars, pedVars, TrioLocals, all_split_bams>>
    /\ rpc = "loop"
    /\ run_i < Len(RunSubjects)
    /\ RunSubjects[run_i + 1].kind = "individual"
    /\ LET sample == RunSubjects[run_i + 1].name
           split == [r \in regions |-> RegionBamPaths(sample, r)]
       IN  IF MakeOutputDirsExit # "none"
           THEN /\ rpc' = "exit"
                /\ run_exit' = MakeOutputDirsExit
                /\ UNCHANGED <<TableLocals, outdir_files, data_dir_exists, run_log>>
           ELSE IF regions = {}
           THEN /\ rpc' = "exit"
                /\ run_exit' = "no_regions"
                /\ data_dir_exists' = TRUE
                /\ run_log' = Append(run_log, Logged("split_bam", sample))
                /\ UNCHANGED <<TableLocals, outdir_files>>
           ELSE /\ rpc' = "individual"
                /\ run_exit' = run_exit
                /\ run_log' = run_log \o <<Logged("split_bam", sample),
                                            Logged("make_table_entries", sample)>>
                /\ data_dir_exists' = TRUE
                /\ outdir_files' = WithSlices(outdir_files, sample, split)
                /\ tpc' = "start"
                /\ paraphase_json_calls' = run_documents[sample]
                /\ split_bams' = split
                /\ paraphase_config' = run_config
                /\ pedigree_entry' = PedigreeGet(pedigree_dict, sample)
                /\ sample_paraphase_results' = ParaphaseResultsOf(sample)
                /\ region_i' = 0
                /\ sample_entries' = <<>>
    /\ UNCHANGED <<RunInputs, all_paraphase_results, trio_samples, run_i,
                   all_region_entries, table_data>>

\* make_table_entries has returned: generate_igv_sessions,
\* generate_igv_images, and the two statements of the loop body that follow
ProcessIndividualReturn ==
    /\ UNCHANGED <<splitVars, infoVars, mainVars, imageVars, pedVars, TrioLocals, outdir_files>>
    /\ rpc = "individual"
    /\ tpc = "returned"
    /\ run_log' = Append(run_log, Logged("generate_igv_sessions",
                                         sample_paraphase_results.Sample))
    /\ IF IgvExit(sample_entries, args.no_igv_rerun) # "none"
       THEN /\ rpc' = "exit"
            /\ run_exit' = IgvExit(sample_entries, args.no_igv_rerun)
            /\ UNCHANGED <<all_region_entries, all_split_bams, run_i>>
       ELSE /\ rpc' = "loop"
            /\ run_exit' = run_exit
            /\ all_region_entries' = all_region_entries \o sample_entries
            /\ all_split_bams' = Put(all_split_bams, sample_paraphase_results.Sample,
                                     split_bams)
            /\ run_i' = run_i + 1
    /\ tpc' = "idle"
    /\ paraphase_json_calls' = None
    /\ split_bams' = EmptyMap
    /\ paraphase_config' = EmptyMap
    /\ pedigree_entry' = None
    /\ sample_paraphase_results' = None
    /\ region_i' = 0
    /\ sample_entries' = <<>>
    /\ UNCHANGED <<RunInputs, all_paraphase_results, trio_samples, data_dir_exists,
                   table_data>>

\* make_table_entries has raised: nothing catches the exception
ProcessIndividualRaises ==
    /\ UNCHANGED <<splitVars, tableVars, infoVars, trioVars, mainVars, imageVars, pedVars>>
    /\ rpc = "individual"
    /\ tpc = "raised"
    /\ rpc' = "raised"
    /\ run_exit' = "TypeError"
    /\ UNCHANGED <<RunInputs, all_paraphase_results, trio_samples, run_i,
                   all_region_entries, data_dir_exists, run_log, table_data>>

\* process_trio up to the call of make_trio_table_entries
ProcessTrioCall ==
    /\ UNCHANGED <<splitVars, tableVars, infoVars, mainVars, imageVars, pedVars,
                   all_split_bams, outdir_files>>
    /\ rpc = "loop"
    /\ run_i < Len(RunSubjects)
    /\ RunSubjects[run_i + 1].kind = "trio"
    /\ LET entry == ValueOf(RunSubjects[run_i + 1].entry)
       IN  IF MakeOutputDirsExit # "none"
           THEN /\ rpc' = "exit"
                /\ run_exit' = MakeOutputDirsExit
                /\ UNCHANGED <<TrioLocals, run_log>>
           ELSE /\ rpc' = "trio"
                /\ run_exit' = run_exit
                /\ run_log' = Append(run_log, Logged("make_trio_table_entries",
                                                     RunSubjects[run_i + 1].name))
                /\ trpc' = "start"
                /\ trio' = entry
                /\ trio_json_calls' = [proband |-> run_documents[entry.IndividualID],
                                       paternal |-> run_documents[entry.PaternalID],
                                       maternal |-> run_documents[entry.MaternalID]]
                /\ trio_config' = run_config
                /\ trio_i' = 0
                /\ trio_entries' = <<>>
                /\ trio_exc' = "none"
    /\ UNCHANGED <<RunInputs, all_paraphase_results, trio_samples, run_i,
                   all_region_entries, data_dir_exists, table_data>>

\* make_trio_table_entries has returned
ProcessTrioReturn ==
    /\ UNCHANGED <<splitVars, tableVars, infoVars, mainVars, imageVars, pedVars,
                   all_split_bams, outdir_files>>
    /\ rpc = "trio"
    /\ trpc = "returned"
    /\ run_log' = Append(run_log, Logged("generate_igv_sessions",
                                         TrioSubject(trio.IndividualID)))
    /\ IF IgvExit(trio_entries, args.no_igv_rerun) # "none"
       THEN /\ rpc' = "exit"
            /\ run_exit' = IgvExit(trio_entries, args.no_igv_rerun)
            /\ UNCHANGED <<all_region_entries, run_i>>
       ELSE /\ rpc' = "loop"
            /\ run_exit' = run_exit
            /\ all_region_entries' = all_region_entries \o trio_entries
            /\ run_i' = run_i + 1
    /\ trpc' = "idle"
    /\ trio' = None
    /\ trio_json_calls' = None
    /\ trio_config' = EmptyMap
    /\ trio_i' = 0
    /\ trio_entries' = <<>>
    /\ trio_exc' = "none"
    /\ UNCHANGED <<RunInputs, all_paraphase_results, trio_samples, data_dir_exists,
                   table_data>>

\* make_trio_table_entries has raised
ProcessTrioRaises ==
    /\ UNCHANGED <<splitVars, tableVars, infoVars, trioVars, mainVars, imageVars, pedVars>>
    /\ rpc = "trio"
    /\ trpc = "raised"
    /\ rpc' = "raised"
    /\ run_exit' = trio_exc
    /\ UNCHANGED <<RunInputs, all_paraphase_results, trio_samples, run_i,
                   all_region_entries, data_dir_exists, run_log, table_data>>

\* build_review_page(args.outdir, all_region_entries): sys.exit(1) for no
\* rows, generate_table and write_site otherwise
BuildReviewPage ==
    /\ UNCHANGED <<splitVars, tableVars, infoVars, trioVars, mainVars, imageVars, pedVars>>
    /\ rpc = "loop"
    /\ run_i = Len(RunSubjects)
    /\ IF Len(all_region_entries) = 0
       THEN /\ rpc' = "exit"
            /\ run_exit' = "no_entries"
            /\ table_data' = table_data
       ELSE /\ rpc' = "done"
            /\ run_exit' = run_exit
            /\ table_data' = Some(GenerateTable(all_region_entries))
    /\ UNCHANGED <<RunInputs, all_paraphase_results, trio_samples, run_i,
                   all_region_entries, data_dir_exists, run_log>>

NextRun ==
    \/ RunStart
    \/ \E regions \in RunRegionSets : ProcessIndividualCall(regions)
    \/ TableStart
    \/ TableRegion
    \/ TableReturn
    \/ ProcessIndividualReturn
    \/ ProcessIndividualRaises
    \/ ProcessTrioCall
    \/ TrioStart
    \/ TrioRegion
    \/ TrioReturn
    \/ ProcessTrioReturn
    \/ ProcessTrioRaises
    \/ BuildReviewPage

SpecRun == InitRun /\ [][NextRun]_vars

\* ------------------------------------------------------------------------
\* Properties of paraviewer()

RunEnded == rpc \in {"done", "exit", "raised"}

\* the rows of the report for a subject
ReportRowsOf(subject) ==
    SelectSeq(all_region_entries, LAMBDA row : row.Sample = subject)

\* C11: a subject (individual or trio) whose regions are all skipped, so
\* that it yields zero rows, does not abort the run: the run goes on with
\* the subjects that remain and builds the report.
C11_ZeroRowSubjectSkipped ==
    [][/\ \/ rpc = "individual" /\ tpc = "returned" /\ sample_entries = <<>>
          \/ rpc = "trio" /\ trpc = "returned" /\ trio_entries = <<>>
       => /\ rpc' = "loop"
          /\ run_i' = run_i + 1]_vars

\* the partition maps of the individual of a pedigree entry and of both
\* parents that it names are not empty
FamilyPartitioned(entry) ==
    \A member \in {entry.IndividualID, entry.PaternalID, entry.MaternalID} :
        /\ member \in DOMAIN all_split_bams
        /\ all_split_bams[member] # EmptyMap

\* C17: over a whole run, rows with subject "<individual>-trio" are
\* produced if and only if the individual and both parents of its pedigree
\* entry have non-empty partition maps; a family without one of its
\* members has no rows and the run is not aborted for it.
C17_FamilyRecognition ==
    RunEnded =>
        \A id \in DOMAIN pedigree_dict :
            ReportRowsOf(TrioSubject(id)) # <<>> <=> FamilyPartitioned(pedigree_dict[id])

\* C20: an individual with alignment and call-metadata results and no
\* entry in the pedigree table is processed, and every row of it has the
\* five pedigree fields empty, whether the table is empty or has entries
\* for other individuals.
C20_IndividualWithoutPedigreeEntry ==
    rpc \notin {"idle", "start"} =>
        \A sample \in paraphase_dir \ DOMAIN pedigree_dict :
            /\ sample \in Range(all_paraphase_results)
            /\ \A i \in DOMAIN all_region_entries :
                    all_region_entries[i].Sample = sample =>
                        /\ all_region_entries[i].FamilyID = ""
                        /\ all_region_entries[i].PaternalID = ""
                        /\ all_region_entries[i].MaternalID = ""
                        /\ all_region_entries[i].Sex = ""
                        /\ all_region_entries[i].Phenotype = ""

\* ------------------------------------------------------------------------
\* main(): inputs

\* get_config(args.genome, source_pipeline).keys()
ValidRegions == {"r1", "r2"}

\* the values of --include-only-regions and of --exclude-regions: absent,
\* a region in either case, an identifier that the configuration does not
\* know
ArgIncludeLists == {{}, {"r1"}, {"R1"}, {"zz"}, {"R1", "zz"}}

ArgExcludeLists == {{}, {"r1"}, {"r2"}, {"zz"}}

\* the alignment file of the sample: regions in either case, reads without
\* RN, no HP tag (the quota is the default and is not met)
MainSource ==
    [regions |-> <<"r1", "R1", "r2">>, haps |-> {NoTag}, untagged |-> TRUE,
     len |-> MaxReads]

\* ------------------------------------------------------------------------
\* main()

\* for item in include_list: if exclude_list and item in exclude_list
ListsConflict(include_list, exclude_list) ==
    \E item \in include_list : TruthyList(exclude_list) /\ item \in exclude_list

\* [item.lower() for item in a_list]
LowerList(a_list) == {Lower(item) : item \in a_list}

\* the items of a lower-cased list that are in the lower-cased valid_regions;
\* the list as it is when valid_regions is empty or None
FilteredList(a_list, valid_regions) ==
    IF TruthyList(valid_regions)
    THEN {item \in LowerList(a_list) : item \in LowerList(valid_regions)}
    ELSE LowerList(a_list)

InitMain ==
    /\ ImagesIdle
    /\ PedigreeIdle
    /\ pc = "idle"
    /\ in_bam = MainSource
    /\ include_only_regions = {}
    /\ exclude_regions = {}
    /\ max_reads_per_hap = DefaultMaxReadsPerHap
    /\ SplitLocalsInit
    /\ TableIdle
    /\ InfoIdle
    /\ TrioIdle
    /\ RunIdle
    /\ mpc = "start"
    /\ arg_include_only_regions \in ArgIncludeLists
    /\ arg_exclude_regions \in ArgExcludeLists

\* validate_include_exclude_lists(..., "region", valid_regions) and, when it
\* returns, paraviewer(args) down to the call of split_bam with
\* args.include_only_regions and args.exclude_regions
ValidateRegionLists ==
    /\ UNCHANGED <<tableVars, infoVars, trioVars, runVars, imageVars, pedVars>>
    /\ mpc = "start"
    /\ IF ListsConflict(arg_include_only_regions, arg_exclude_regions)
       THEN /\ mpc' = "exit"
            /\ UNCHANGED <<pc, include_only_regions, exclude_regions>>
       ELSE /\ mpc' = "validated"
            /\ include_only_regions' = FilteredList(arg_include_only_regions, ValidRegions)
            /\ exclude_regions' = FilteredList(arg_exclude_regions, ValidRegions)
            /\ pc' = "start"
    /\ UNCHANGED <<arg_include_only_regions, arg_exclude_regions>>
    /\ UNCHANGED <<max_reads_per_hap, region_files_cache, result_abs_paths,
                   result_relative_paths, haplotype_read_counts, exc, files, index,
                   openWriters, nopened, in_bam, nread, ntags, written, last, outcome>>

\* The source of these calls names fewer regions than the cache holds: no
\* writer is evicted, and none is left to the finalizer.
NextMain ==
    \/ ValidateRegionLists
    \/ OpenSource
    \/ OpenFails
    \/ \E read \in NextReads : ReadStep(read)
    \/ ReadFails
    \/ \E read \in NextReads : CreateFails(read)
    \/ \E read \in NextReads : WriteFails(read)
    \/ EndOfStream
    \/ Finally
    \/ CallerObserves

SpecMain == InitMain /\ [][NextMain]_vars

\* ------------------------------------------------------------------------
\* Properties of main()

\* the same identifier but for its case
SameRegion(a, b) == Lower(a) = Lower(b)

\* C21: when the include-list and the exclude-list of region identifiers
\* hold the same identifier, compared without regard to case, validation
\* ends the process before split_bam is called.
C21_ConflictingLists ==
    (/\ mpc # "start"
     /\ \E a \in arg_include_only_regions : \E b \in arg_exclude_regions : SameRegion(a, b))
    => mpc = "exit" /\ pc = "idle"

\* C29: when the user supplies a non-empty include-list, every region of
\* the partition map is a member of that list, compared without regard to
\* case, also when identifiers of the list are unknown to the configuration
\* and are dropped by validation.
C29_EndToEndIncludeList ==
    arg_include_only_regions # {} =>
        \A region \in result_abs_paths \cup DOMAIN result_relative_paths :
            \E a \in arg_include_only_regions : SameRegion(a, region)

\* ------------------------------------------------------------------------
\* generate_igv_images: inputs

BATCH_SIZE == 100

\* how many batch entries a subject may have: none, one, and the counts
\* around each multiple of BATCH_SIZE
EntryCounts ==
    {0, 1} \cup UNION {{k * BATCH_SIZE, k * BATCH_SIZE + 1} : k \in 1..(MaxBatches - 1)}

Platforms == {"mac", "linux", "other"}

\* What becomes of one call of run_batch_mac or run_batch_linux:
\*   ok           the tool ends with return code 0
\*   timeout      subprocess.run raises TimeoutExpired
\*   nonzero      check_returncode (or check=True) raises CalledProcessError
\*   no_xvfb      subprocess.Popen(["Xvfb", ...]) raises OSError
\*   no_display   find_free_display calls sys.exit(1)
BatchResults(os) ==
    IF os = "mac" THEN {"ok", "timeout", "nonzero"}
    ELSE {"ok", "timeout", "nonzero", "no_xvfb", "no_display"}

\* ------------------------------------------------------------------------
\* generate_igv_images

\* int(i / BATCH_SIZE)
FileIdx(i) == i \div BATCH_SIZE

\* write_batch_scripts: entry i of enumerate(igv_batch_entries) is written
\* to batch_files[int(i / BATCH_SIZE)], and a file is appended when that
\* index is met for the first time; the files are given by the number of
\* entries of each
WriteBatchScripts(n) ==
    [k \in 1..Cardinality({FileIdx(i) : i \in 0..(n - 1)}) |->
        Cardinality({i \in 0..(n - 1) : FileIdx(i) = k - 1})]

\* the result is an exception that "except Exception" catches
Caught(result) == result \in {"timeout", "nonzero", "no_xvfb"}

\* a bug: a failed batch ends the function
AfterBatch_AbortOnFailure(result) == IF result = "ok" THEN "loop" ELSE "exit"

\* where the loop stands after the try statement: SystemExit is not an
\* Exception and leaves the function
AfterBatch(result) == IF result = "no_display" THEN "exit" ELSE "loop"

InitImages ==
    /\ SplitIdle
    /\ PedigreeIdle
    /\ TableIdle
    /\ InfoIdle
    /\ TrioIdle
    /\ RunIdle
    /\ MainIdle
    /\ gpc = "start"
    /\ platform \in Platforms
    /\ igv_batch_entries \in EntryCounts
    /\ batch_filenames = <<>>
    /\ batch_i = 0
    /\ batch_files = {}
    /\ batch_runs = <<>>
    /\ igv_errors = <<>>
    /\ images_exit = "none"

notImageVars == <<splitVars, tableVars, infoVars, trioVars, runVars, mainVars, pedVars>>

\* the two tests, write_batch_scripts and write_prefs_file
ImagesStart ==
    /\ UNCHANGED notImageVars
    /\ gpc = "start"
    /\ IF platform = "other"
       THEN /\ gpc' = "exit"
            /\ images_exit' = "platform"
            /\ UNCHANGED <<batch_filenames, batch_files>>
       ELSE IF igv_batch_entries = 0
       THEN /\ gpc' = "exit"
            /\ images_exit' = "no_entries"
            /\ UNCHANGED <<batch_filenames, batch_files>>
       ELSE /\ gpc' = "loop"
            /\ images_exit' = images_exit
            /\ batch_filenames' = WriteBatchScripts(igv_batch_entries)
            /\ batch_files' = DOMAIN WriteBatchScripts(igv_batch_entries)
    /\ UNCHANGED <<platform, igv_batch_entries, batch_i, batch_runs, igv_errors>>

\* one iteration of "for batch_filename in batch_filenames": the try
\* statement with its except and finally clauses
RunBatch(result) ==
    /\ UNCHANGED notImageVars
    /\ gpc = "loop"
    /\ batch_i < Len(batch_filenames)
    /\ result \in BatchResults(platform)
    /\ batch_runs' = Append(batch_runs, [batch |-> batch_i + 1, result |-> result])
    /\ igv_errors' = IF Caught(result) THEN Append(igv_errors, batch_i + 1) ELSE igv_errors
    /\ batch_files' = batch_files \ {batch_i + 1}
    /\ gpc' = AfterBatch(result)
    /\ images_exit' = IF AfterBatch(result) = "exit" THEN result ELSE images_exit
    /\ batch_i' = IF AfterBatch(result) = "exit" THEN batch_i ELSE batch_i + 1
    /\ UNCHANGED <<platform, igv_batch_entries, batch_filenames>>

\* the loop is over: the function returns to process_individual_sample or
\* process_trio
ImagesReturn ==
    /\ UNCHANGED notImageVars
    /\ gpc = "loop"
    /\ batch_i = Len(batch_filenames)
    /\ gpc' = "returned"
    /\ UNCHANGED <<platform, igv_batch_entries, batch_filenames, batch_i, batch_files,
                   batch_runs, igv_errors, images_exit>>

NextImages ==
    \/ ImagesStart
    \/ \E result \in BatchResults("linux") : RunBatch(result)
    \/ ImagesReturn

SpecImages == InitImages /\ [][NextImages]_vars

\* ------------------------------------------------------------------------
\* Properties of generate_igv_images

\* the rendering tool timed out or ended with a return code that is not 0
RenderingFailure(result) == result \in {"timeout", "nonzero"}

\* C22: a rendering failure (time-out or non-zero exit) of one batch is
\* logged and does not end the function: the batches are attempted in
\* order, each at most once, the later ones after a failure too, the
\* function returns to the caller, which goes on with the next subject,
\* and the script of every attempted batch is removed.
C22_RenderingFailures ==
    /\ \A i \in DOMAIN batch_runs :
        /\ batch_runs[i].batch = i
        /\ batch_runs[i].batch \notin batch_files
        /\ RenderingFailure(batch_runs[i].result) =>
                /\ \E j \in DOMAIN igv_errors : igv_errors[j] = i
                /\ gpc = "loop" => batch_i >= i
    /\ gpc = "exit" => ~RenderingFailure(images_exit)
    /\ gpc = "returned" =>
        /\ Len(batch_runs) = Len(batch_filenames)
        /\ batch_files = {}

C22_Witness ==
    /\ gpc = "returned"
    /\ Len(batch_runs) >= 3
    /\ batch_runs[1].result = "timeout"
    /\ batch_runs[2].result = "nonzero"
    /\ batch_runs[3].result = "ok"

\* ------------------------------------------------------------------------
\* Properties of the order of the subjects

SplitCalls(subject) ==
    {i \in DOMAIN run_log : run_log[i] = Logged("split_bam", subject)}

\* the place of a call in the processing of a subject
StepOf(op) ==
    CASE op = "split_bam" -> 1
      [] op \in {"make_table_entries", "make_trio_table_entries"} -> 2
      [] op = "generate_igv_sessions" -> 3

IsTrioCall(i) == run_log[i].op = "make_trio_table_entries"

\* C23: split_bam is called once per individual and never for a family;
\* the calls for one subject (partition, aggregate, sessions and images)
\* are made in that order and are over before the next subject begins;
\* every trio comes after all individuals, when the partition maps of its
\* three members are recorded.
C23_SubjectOrdering ==
    /\ \A i \in DOMAIN run_log :
            run_log[i].op = "split_bam" => run_log[i].subject \in Range(all_paraphase_results)
    /\ \A sample \in RunSamples : Cardinality(SplitCalls(sample)) <= 1
    /\ rpc = "done" =>
            \A sample \in Range(all_paraphase_results) : Cardinality(SplitCalls(sample)) = 1
    /\ \A i \in DOMAIN run_log : \A k \in DOMAIN run_log :
            i < k /\ run_log[i].subject = run_log[k].subject =>
                /\ StepOf(run_log[i].op) < StepOf(run_log[k].op)
                /\ \A j \in i..k : run_log[j].subject = run_log[i].subject
    /\ \A i \in DOMAIN run_log :
            IsTrioCall(i) =>
                \A sample \in Range(all_paraphase_results) :
                    \E j \in 1..(i - 1) : run_log[j] = Logged("generate_igv_sessions", sample)
    /\ rpc = "trio" =>
            {trio.IndividualID, trio.PaternalID, trio.MaternalID} \subseteq DOMAIN all_split_bams

C23_Witness ==
    /\ rpc = "done"
    /\ Len(all_paraphase_results) = 3
    /\ \E i \in DOMAIN run_log : IsTrioCall(i)
    /\ ReportRowsOf("s1-trio") # <<>>

\* ------------------------------------------------------------------------
\* Properties of the collection of rows

Occurrences(rows, row) == Cardinality({i \in DOMAIN rows : rows[i] = row})

IsPermutation(a, b) ==
    /\ Len(a) = Len(b)
    /\ \A row \in Range(a) \cup Range(b) : Occurrences(a, row) = Occurrences(b, row)

IsPrefix(a, b) == Len(a) <= Len(b) /\ SubSeq(b, 1, Len(a)) = a

\* the table handed to the page holds the collected rows in non-decreasing
\* order of (Chrom, Start, End)
TableSorted ==
    table_data # None =>
        /\ IsPermutation(ValueOf(table_data), all_region_entries)
        /\ \A i \in DOMAIN ValueOf(table_data) : \A j \in DOMAIN ValueOf(table_data) :
                i < j => ~SortKeyLess(ValueOf(table_data)[j], ValueOf(table_data)[i])

\* C24: during the run the collection of rows only grows by appending, no
\* row being removed or changed, and the table handed to the page is a
\* permutation of the collected rows in non-decreasing order of
\* (chromosome, start, end).
C24_ReportRowCollection ==
    /\ []TableSorted
    /\ [][IsPrefix(all_region_entries, all_region_entries')]_vars

C24_Witness ==
    /\ rpc = "done"
    /\ Len(all_region_entries) >= 4
    /\ ValueOf(table_data) # all_region_entries
    /\ \E i \in DOMAIN all_region_entries : all_region_entries[i].Sample = "s1-trio"

\* ------------------------------------------------------------------------
\* Properties of the aggregation without call-metadata

\* the call-metadata of a member of the family is absent
TrioMetadataAbsent ==
    \E member \in {"proband", "paternal", "maternal"} : IsNone(trio_json_calls[member])

\* C25: when unpack_json yields no mapping for the call-metadata of a
\* subject, make_table_entries returns zero rows and raises nothing; so
\* does make_trio_table_entries when the call-metadata of any of the three
\* members is absent.
C25_AbsentCallMetadata ==
    /\ (tpc \notin {"idle", "start"} /\ IsNone(paraphase_json_calls)) =>
            tpc # "raised" /\ sample_entries = <<>>
    /\ (trpc \notin {"idle", "start"} /\ TrioMetadataAbsent) =>
            trpc # "raised" /\ trio_entries = <<>>

\* ------------------------------------------------------------------------
\* read_pedigree_file: inputs

Whitespace == {" ", "\t", "\n"}

\* the words that start with "#"
HashWords == {"#", "#fam1"}

\* The lines of a pedigree file, as the words and the white space between
\* them: two lines for s1, a line with an unknown sex code and a named
\* mother, a line of five fields, a line of seven, a blank line and a
\* comment of six fields.
PedLines ==
    {<<"fam1", "\t", "s1", "\t", "p1", "\t", "m1", "\t", "1", "\t", "2", "\n">>,
     <<"fam1", " ", "s1", " ", "0", " ", "0", " ", "2", " ", "1", "\n">>,
     <<" ", "fam2", " ", " ", "p1", " ", "0", " ", "m1", " ", "3", " ", "1", " ", "\n">>,
     <<"fam1", " ", "m1", " ", "0", " ", "0", " ", "2", "\n">>,
     <<"fam1", " ", "m1", " ", "0", " ", "0", " ", "2", " ", "1", " ", "extra", "\n">>,
     <<"\n">>,
     <<"#fam1", " ", "m1", " ", "0", " ", "0", " ", "1", " ", "1", "\n">>}

RECURSIVE SeqsUpTo(_, _)
SeqsUpTo(S, n) ==
    IF n = 0 THEN {<<>>}
    ELSE SeqsUpTo(S, n - 1)
         \cup {Append(q, x) : q \in {p \in SeqsUpTo(S, n - 1) : Len(p) = n - 1}, x \in S}

\* ped_file: no file, or the lines of the file
PedFiles == {None} \cup {Some(lines) : lines \in SeqsUpTo(PedLines, MaxPedLines)}

\* ------------------------------------------------------------------------
\* read_pedigree_file

\* line.strip()
RECURSIVE StripLineLeft(_)
StripLineLeft(line) ==
    IF line # <<>> /\ Head(line) \in Whitespace THEN StripLineLeft(Tail(line)) ELSE line

RECURSIVE StripLineRight(_)
StripLineRight(line) ==
    IF line # <<>> /\ line[Len(line)] \in Whitespace
    THEN StripLineRight(SubSeq(line, 1, Len(line) - 1)) ELSE line

StripLine(line) == StripLineRight(StripLineLeft(line))

\* if not line or line.startswith("#"): continue
SkipsBlankOrComment(line) == line = <<>> \/ Head(line) \in HashWords

\* line.split(): the words between runs of white space
SplitLine(line) == SelectSeq(line, LAMBDA piece : piece \notin Whitespace)

\* a bug: a line of more than six fields is taken for its first six
SkipsMalformed_AtLeastSix(fields) == Len(fields) < 6

\* if len(fields) != 6: continue
SkipsMalformed(fields) == Len(fields) # 6

\* the two tests on individual_id.lower()
SkipsSample(individual_id, include_only_samples, exclude_samples) ==
    \/ Cardinality(include_only_samples) > 0 /\ Lower(individual_id) \notin include_only_samples
    \/ Lower(individual_id) \in exclude_samples

\* PaternalID if PaternalID != "0" else ""
RecodeParent(id) == IF id # "0" THEN id ELSE ""

RecodeSex(sex) ==
    IF sex = "1" THEN "Male" ELSE IF sex = "2" THEN "Female" ELSE "Unknown"

PedigreeEntryOf(fields) ==
    [FamilyID |-> fields[1],
     IndividualID |-> fields[2],
     PaternalID |-> RecodeParent(fields[3]),
     MaternalID |-> RecodeParent(fields[4]),
     Sex |-> RecodeSex(fields[5]),
     Phenotype |-> fields[6]]

\* the dict after the loop body for one line
AfterPedLine(entries, raw_line, include_only_samples, exclude_samples) ==
    LET line == StripLine(raw_line)
        fields == SplitLine(line)
    IN  IF SkipsBlankOrComment(line) THEN entries
        ELSE IF SkipsMalformed(fields) THEN entries
        ELSE IF SkipsSample(fields[2], include_only_samples, exclude_samples) THEN entries
        ELSE Put(entries, fields[2], PedigreeEntryOf(fields))

InitPedigree ==
    /\ SplitIdle
    /\ TableIdle
    /\ InfoIdle
    /\ TrioIdle
    /\ RunIdle
    /\ MainIdle
    /\ ImagesIdle
    /\ ppc = "start"
    /\ ped_file \in PedFiles
    /\ ped_include_only_samples \in {{}, {"s1"}}
    /\ ped_exclude_samples \in {{}, {"p1"}}
    /\ ped_i = 0
    /\ ped_entries = EmptyMap

notPedVars == <<splitVars, tableVars, infoVars, trioVars, runVars, mainVars, imageVars>>

\* if not ped_file or not path.exists(ped_file): return {}; open(ped_file)
PedigreeStart ==
    /\ UNCHANGED notPedVars
    /\ ppc = "start"
    /\ ppc' = IF IsNone(ped_file) THEN "returned" ELSE "loop"
    /\ UNCHANGED <<ped_file, ped_include_only_samples, ped_exclude_samples, ped_i,
                   ped_entries>>

\* one iteration of "for line in f"
PedigreeLine ==
    /\ UNCHANGED notPedVars
    /\ ppc = "loop"
    /\ ped_i < Len(ValueOf(ped_file))
    /\ ped_i' = ped_i + 1
    /\ ped_entries' = AfterPedLine(ped_entries, ValueOf(ped_file)[ped_i + 1],
                                   ped_include_only_samples, ped_exclude_samples)
    /\ UNCHANGED <<ppc, ped_file, ped_include_only_samples, ped_exclude_samples>>

\* open or the iterator raises: except Exception, sys.exit(1)
PedigreeReadFails ==
    /\ UNCHANGED notPedVars
    /\ ppc = "loop"
    /\ ppc' = "exit"
    /\ UNCHANGED <<ped_file, ped_include_only_samples, ped_exclude_samples, ped_i,
                   ped_entries>>

\* the file is exhausted: return pedigree_dict
PedigreeReturn ==
    /\ UNCHANGED notPedVars
    /\ ppc = "loop"
    /\ ped_i = Len(ValueOf(ped_file))
    /\ ppc' = "returned"
    /\ UNCHANGED <<ped_file, ped_include_only_samples, ped_exclude_samples, ped_i,
                   ped_entries>>

NextPedigree ==
    \/ PedigreeStart
    \/ PedigreeLine
    \/ PedigreeReadFails
    \/ PedigreeReturn

SpecPedigree == InitPedigree /\ [][NextPedigree]_vars

\* ------------------------------------------------------------------------
\* Properties of read_pedigree_file

\* the words of line k of the file
WordsOf(k) == SelectSeq(ValueOf(ped_file)[k], LAMBDA piece : piece \notin Whitespace)

\* line k has six fields, is no comment, and its individual passes the
\* sample lists
Accepted(k) ==
    /\ Len(WordsOf(k)) = 6
    /\ WordsOf(k)[1] \notin HashWords
    /\ ped_include_only_samples # {} => WordsOf(k)[2] \in ped_include_only_samples
    /\ WordsOf(k)[2] \notin ped_exclude_samples

\* the entry for line k, as the pedigree format defines it
ExpectedEntry(k) ==
    [FamilyID |-> WordsOf(k)[1],
     IndividualID |-> WordsOf(k)[2],
     PaternalID |-> IF WordsOf(k)[3] = "0" THEN "" ELSE WordsOf(k)[3],
     MaternalID |-> IF WordsOf(k)[4] = "0" THEN "" ELSE WordsOf(k)[4],
     Sex |-> CASE WordsOf(k)[5] = "1" -> "Male"
               [] WordsOf(k)[5] = "2" -> "Female"
               [] OTHER -> "Unknown",
     Phenotype |-> WordsOf(k)[6]]

\* the accepted lines of an individual among the lines consumed
LinesOf(id) == {k \in 1..ped_i : Accepted(k) /\ WordsOf(k)[2] = id}

Max_of(S) == CHOOSE k \in S : \A j \in S : j <= k

PedigreeTable ==
    ppc \in {"loop", "returned", "exit"} /\ ped_file # None =>
        /\ DOMAIN ped_entries = {WordsOf(k)[2] : k \in {j \in 1..ped_i : Accepted(j)}}
        /\ \A id \in DOMAIN ped_entries : ped_entries[id] = ExpectedEntry(Max_of(LinesOf(id)))

\* C26: a line that has not exactly six white-space-separated fields is
\* skipped, the parsing goes on and the entries of the other lines are as
\* they are without it; sex "1" is Male, "2" Female, anything else
\* Unknown; a parent "0" is stored as ""; the table is keyed by individual
\* ID and has one entry for each.
C26_PedigreeParsing ==
    /\ []PedigreeTable
    /\ [][(ppc = "loop" /\ ped_i' = ped_i + 1 /\ Len(WordsOf(ped_i')) # 6) =>
            ped_entries' = ped_entries /\ ppc' = "loop"]_vars

C26_Witness ==
    /\ ppc = "returned"
    /\ ped_file # None
    /\ Len(ValueOf(ped_file)) = 3
    /\ Len(WordsOf(1)) = 6 /\ WordsOf(1)[5] = "3"
    /\ Len(WordsOf(2)) \in {5, 7}
    /\ Len(WordsOf(3)) = 6 /\ WordsOf(3)[2] = "s1"
    /\ DOMAIN ped_entries = {"p1", "s1"}

\* ------------------------------------------------------------------------
\* Properties of the partition map

\* BAMS_PATH.format(sample): the alignment-slice directory of the subject
SliceDirectory == <<"data", SampleName, "bams">>

IsUnder(file_path, directory) ==
    /\ Len(file_path) > Len(directory)
    /\ SubSeq(file_path, 1, Len(directory)) = directory

MapShape ==
    /\ DOMAIN result_relative_paths \subseteq result_abs_paths
    /\ Returned =>
            \A region \in {in_bam.regions[i] : i \in DOMAIN in_bam.regions} :
                region \in DOMAIN result_relative_paths
                    <=> SeqOf(written, region) # <<>>
    /\ \A region \in DOMAIN result_relative_paths :
            /\ IsUnder(result_relative_paths[region].BAM, SliceDirectory)
            /\ IsUnder(result_relative_paths[region].BAI, SliceDirectory)

\* C27: the map that split_bam returns has an entry for a region if and
\* only if a read was retained for it; the entry is made when the first
\* writer of the region is created and stays, also when the writer is
\* evicted from the cache; every reported data and index path lies under
\* data/<sample>/bams.
C27_PartitionMapShape ==
    /\ []MapShape
    /\ [][/\ result_abs_paths \subseteq result_abs_paths'
          /\ result_abs_paths' # result_abs_paths =>
                /\ nopened' = nopened + 1
                /\ \E h \in openWriters' \ openWriters :
                        result_abs_paths' = result_abs_paths \cup {h.region}]_vars

C27_Witness ==
    /\ Returned
    /\ Cardinality(DOMAIN result_relative_paths) > CacheMaxSize
    /\ nopened > Cardinality(DOMAIN result_relative_paths)

\* ------------------------------------------------------------------------
\* Properties of make_output_dirs in a run

\* make_output_dirs has let a subject of this run pass: every such subject
\* is entered in the log, and the data directory exists from then on
DirsMadeInRun == run_log # <<>>

\* C28: in a run into an output root whose data directory does not exist
\* at the start, without the clobber option, make_output_dirs of a later
\* subject does not end the run because of the data directory that was
\* made for an earlier subject of the run: the run ends for an existing
\* data directory only when the directory was there before the run.
C28_FreshOutputRoot ==
    run_exit = "data_dir_exists" => ~DirsMadeInRun

\* C30: make_output_dirs does not go on when the output directory is the
\* file system root or the home directory of the user: it ends the
\* process before a directory is created, so no subject gets past it and
\* no data directory comes into being there.
C30_OutputDirectoryGuard ==
    /\ [](rpc # "idle" /\ args.outdir \in {RootDir, HomeDir} => ~DirsMadeInRun)
    /\ [][rpc # "idle" /\ args.outdir \in {RootDir, HomeDir}
            => data_dir_exists' = data_dir_exists]_vars

====
